---- MODULE Spec2Model ----
(***************************************************************************)
(* A model of pyzx/extract.py: the swap resolver permutation_as_swaps, the *)
(* CZ-overlap search max_overlap, the frontier-advancing extractor         *)
(* streaming_extract with its fallback ladder, the elimination             *)
(* reduce_bottom_rows and the backward extractor modified_extract.         *)
(*                                                                         *)
(* Python lists are modelled as TLA+ sequences; a Python index i is the    *)
(* sequence index i+1.  Dictionaries keyed by 0..n-1 are functions on      *)
(* 0..n-1.                                                                 *)
(***************************************************************************)
EXTENDS Integers, Sequences, FiniteSets, TLC

VARIABLES
  ps,              \* a run of permutation_as_swaps and of the caller applying it
  mo,              \* a run of max_overlap
  rbr,             \* a call of reduce_bottom_rows
  me,              \* a run of modified_extract
  g,               \* the diagram, mutated in place
  c,               \* c.gates, the circuit built so far
  leftrow,         \* the row of the frontier
  maxq,            \* one more than the largest qubit in use
  special_nodes,   \* gadget anchor -> gadget leaf
  tried_id_simp,
  left,            \* the frontier of the current iteration (a list)
  right,           \* the forward neighbours of the frontier (a set)
  good_verts,
  good_neighs,
  boundary_verts,
  allow_ancillae,  \* argument of streaming_extract
  stopcount,       \* argument of streaming_extract
  pc,              \* the position of streaming_extract
  raised           \* the exception that left streaming_extract, if any

xvars == <<g, c, leftrow, maxq, special_nodes, tried_id_simp, left, right,
           good_verts, good_neighs, boundary_verts, allow_ancillae, stopcount,
           pc, raised>>

vars == <<ps, mo, rbr, me, xvars>>

(***************************************************************************)
(* Bounds of the model.                                                    *)
(***************************************************************************)
\* largest permutation size given to permutation_as_swaps
MaxPerm == 4
\* largest dimension of the matrix given to max_overlap
MaxDim == 4
\* most inputs of a diagram
MaxQubits == 2
\* most row-2 vertices of a diagram
MaxMids == 2
\* largest gate-count cutoff tried
MaxStop == 1
\* the largest number of rows and of columns of a matrix given to
\* reduce_bottom_rows
MaxRows == 3
\* the largest number of qubits of a CZ matrix of modified_extract
MaxCz == 5

(***************************************************************************)
(* Generic helpers.                                                        *)
(***************************************************************************)
Range(s) == {s[x] : x \in DOMAIN s}

\* the element of a set of one element; The({F(x) : x \in {e}}) is F(e) with
\* e worked out once
The(S) == CHOOSE x \in S : TRUE

\* the Python list [f(0), ..., f(n-1)] of a function on 0..n-1
ListOf(f, n) == [x \in 1..n |-> f[x - 1]]

(***************************************************************************)
(* permutation_as_swaps (extract.py 605-621).                              *)
(***************************************************************************)
\* the permutations of {0..n-1}, as dictionaries
PermDicts(n) ==
  {f \in [0..(n - 1) -> 0..(n - 1)] : \A x, y \in 0..(n - 1) : f[x] = f[y] => x = y}

\* pinv = {v:k for k,v in perm.items()}
Inverse(perm) ==
  [v \in Range(perm) |-> CHOOSE x \in DOMAIN perm : perm[x] = v]

\* the state of the loop before its first iteration (lines 608-611); a
\* lookup of a missing key is a KeyError
SwapsInit(perm) ==
  LET n == Cardinality(DOMAIN perm)
      pinv == Inverse(perm)
  IN IF \E x \in 0..(n - 1) : x \notin DOMAIN perm
       THEN [raised |-> "KeyError"]
     ELSE IF \E x \in 0..(n - 1) : x \notin DOMAIN pinv
       THEN [raised |-> "KeyError"]
     ELSE [raised |-> "", l |-> [x \in 0..(n - 1) |-> perm[x]],
           linv |-> [x \in 0..(n - 1) |-> pinv[x]], swaps |-> <<>>]

\* a loop body that also emits a swap for a position already in place
SwapsBodyNoSkip(st, i) ==
  LET t1 == st.l[i]
      t2 == st.linv[i]
  IN [st EXCEPT !.swaps = Append(@, <<i, t2>>),
                !.l = [@ EXCEPT ![t2] = t1],
                !.linv = [@ EXCEPT ![t1] = t2]]

\* a loop body that forgets to record where the displaced value went
SwapsBodyStaleInverse(st, i) ==
  IF st.l[i] = i THEN st
  ELSE LET t1 == st.l[i]
           t2 == st.linv[i]
       IN [st EXCEPT !.swaps = Append(@, <<i, t2>>),
                     !.l = [@ EXCEPT ![t2] = t1]]

\* one iteration of the loop, lines 613-620
SwapsBody(st, i) ==
  IF st.l[i] = i THEN st
  ELSE LET t1 == st.l[i]
           t2 == st.linv[i]
       IN [st EXCEPT !.swaps = Append(@, <<i, t2>>),
                     !.l = [@ EXCEPT ![t2] = t1],
                     !.linv = [@ EXCEPT ![t1] = t2]]

RECURSIVE SwapsLoop(_, _, _)
SwapsLoop(st, i, n) ==
  IF i >= n THEN st ELSE SwapsLoop(SwapsBody(st, i), i + 1, n)

\* the value returned for perm: [raised, swaps]
permutation_as_swaps(perm) ==
  LET st == SwapsInit(perm)
  IN IF st.raised # "" THEN [raised |-> st.raised, swaps |-> <<>>]
     ELSE [raised |-> "",
           swaps |-> SwapsLoop(st, 0, Cardinality(DOMAIN perm)).swaps]

\* the number of cycles of perm, fixed points included
RECURSIVE Orbit(_, _, _)
Orbit(perm, x, seen) ==
  IF x \in seen THEN seen ELSE Orbit(perm, perm[x], seen \cup {x})

NumCycles(perm) == Cardinality({Orbit(perm, x, {}) : x \in DOMAIN perm})

\* a list with the entries at positions a and b exchanged
Exchange(arr, a, b) == [arr EXCEPT ![a] = arr[b], ![b] = arr[a]]

PsInit ==
  \E n \in 0..MaxPerm : \E perm \in PermDicts(n) :
    ps = [pc |-> "call", perm |-> perm, n |-> n, swaps |-> <<>>,
          arr |-> [x \in 0..(n - 1) |-> x], k |-> 0]

PsCall ==
  /\ ps.pc = "call"
  /\ ps' = [ps EXCEPT !.pc = "apply", !.swaps = permutation_as_swaps(ps.perm).swaps]
  /\ UNCHANGED <<mo, rbr, me, xvars>>

\* the caller applies the swaps in the order returned (SWAP gates, 342-343)
PsApply ==
  /\ ps.pc = "apply"
  /\ ps.k < Len(ps.swaps)
  /\ ps' = [ps EXCEPT !.k = @ + 1,
                      !.arr = Exchange(@, ps.swaps[ps.k + 1][1], ps.swaps[ps.k + 1][2])]
  /\ UNCHANGED <<mo, rbr, me, xvars>>

PsDone ==
  /\ ps.pc = "apply"
  /\ ps.k = Len(ps.swaps)
  /\ ps' = [ps EXCEPT !.pc = "done"]
  /\ UNCHANGED <<mo, rbr, me, xvars>>

PsNext == PsCall \/ PsApply \/ PsDone

Idle == [pc |-> "idle"]

ExtractIdle ==
  /\ g = Idle /\ c = <<>> /\ leftrow = 0 /\ maxq = 0 /\ special_nodes = <<>>
  /\ tried_id_simp = FALSE /\ left = <<>> /\ right = {} /\ good_verts = <<>>
  /\ good_neighs = <<>> /\ boundary_verts = <<>> /\ allow_ancillae = FALSE
  /\ stopcount = -1 /\ pc = "idle" /\ raised = [kind |-> "", msg |-> ""]

InitSwaps == PsInit /\ mo = Idle /\ rbr = Idle /\ me = Idle /\ ExtractIdle

SpecSwaps == InitSwaps /\ [][PsNext]_vars

(***************************************************************************)
(* max_overlap (extract.py 626-657).                                       *)
(***************************************************************************)
\* symmetric 0/1 matrices of dimension n, rows and columns indexed 0..n-1
SymmetricMatrices(n) ==
  {m \in [0..(n - 1) -> [0..(n - 1) -> {0, 1}]] :
     \A x, y \in 0..(n - 1) : m[x][y] = m[y][x]}

\* the inner loop over k, lines 638-648: [inner_product, i_czs, j_czs, common_qbs]
RECURSIVE OverlapRow(_, _, _, _, _, _)
OverlapRow(data, N, i, j, k, acc) ==
  IF k >= N THEN acc
  ELSE LET both == data[i][k] # 0 /\ data[j][k] # 0
       IN OverlapRow(data, N, i, j, k + 1,
            The({[inner_product |-> a.inner_product + (IF both THEN 1 ELSE 0),
                  i_czs |-> a.i_czs + data[i][k],
                  j_czs |-> a.j_czs + data[j][k],
                  common_qbs |-> IF both THEN Append(a.common_qbs, k) ELSE a.common_qbs] :
                 a \in {acc}}))

\* an update that puts the lighter row first
OverlapUpdateLightFirst(best, row, i, j) ==
  IF row.inner_product > best.max_inner_product
    THEN [max_inner_product |-> row.inner_product,
          overlapping_rows |-> IF row.i_czs > row.j_czs THEN <<j, i>> ELSE <<i, j>>,
          final_common_qbs |-> row.common_qbs]
    ELSE best

\* lines 650-656
OverlapUpdate(best, row, i, j) ==
  IF row.inner_product > best.max_inner_product
    THEN [max_inner_product |-> row.inner_product,
          overlapping_rows |-> IF row.i_czs < row.j_czs THEN <<j, i>> ELSE <<i, j>>,
          final_common_qbs |-> row.common_qbs]
    ELSE best

\* the two outer loops, lines 636-637, in scan order
RECURSIVE OverlapScan(_, _, _, _, _)
OverlapScan(data, N, i, j, best) ==
  IF i >= N THEN best
  ELSE IF j >= N THEN OverlapScan(data, N, i + 1, i + 2, best)
  ELSE OverlapScan(data, N, i, j + 1,
         The({OverlapUpdate(b, row, i, j) :
                b \in {best},
                row \in {OverlapRow(data, N, i, j, 0,
                           [inner_product |-> 0, i_czs |-> 0, j_czs |-> 0,
                            common_qbs |-> <<>>])}}))

\* the value returned: [overlapping_rows, final_common_qbs]
max_overlap(data, N) ==
  LET best == OverlapScan(data, N, 0, 1,
                [max_inner_product |-> 0, overlapping_rows |-> <<>>,
                 final_common_qbs |-> <<>>])
  IN <<best.overlapping_rows, best.final_common_qbs>>

MoInit ==
  \E n \in 1..MaxDim : \E m \in SymmetricMatrices(n) :
    mo = [pc |-> "call", data |-> m, N |-> n, result |-> <<>>]

MoCall ==
  /\ mo.pc = "call"
  /\ mo' = [mo EXCEPT !.pc = "done", !.result = max_overlap(mo.data, mo.N)]
  /\ UNCHANGED <<ps, rbr, me, xvars>>

MoNext == MoCall

InitOverlap == MoInit /\ ps = Idle /\ rbr = Idle /\ me = Idle /\ ExtractIdle

SpecOverlap == InitOverlap /\ [][MoNext]_vars

(***************************************************************************)
(* Lists.                                                                  *)
(***************************************************************************)
InList(s, x) == \E k \in 1..Len(s) : s[k] = x

\* list.index(x)
IndexOf(s, x) == CHOOSE k \in 1..Len(s) : s[k] = x /\ \A j \in 1..(k - 1) : s[j] # x

\* list.remove(x): the list without the first occurrence of x
Remove(s, x) ==
  LET k == IndexOf(s, x) IN SubSeq(s, 1, k - 1) \o SubSeq(s, k + 1, Len(s))

RECURSIVE RemoveAll(_, _)
RemoveAll(s, xs) ==
  IF xs = <<>> THEN s ELSE RemoveAll(Remove(s, Head(xs)), Tail(xs))

\* the elements of a set of numbers in increasing order: the order in which
\* the model iterates a Python set or dict of vertices
RECURSIVE Ascending(_)
Ascending(S) ==
  IF S = {} THEN <<>>
  ELSE LET least == CHOOSE x \in S : \A y \in S : x <= y
       IN <<least>> \o Ascending(S \ {least})

Sum(s) == LET RECURSIVE Go(_)
              Go(k) == IF k > Len(s) THEN 0 ELSE s[k] + Go(k + 1)
          IN Go(1)

(***************************************************************************)
(* The diagram (the Graph the extractor is given; pyzx.graph is not part   *)
(* of extract.py).  g.ty, g.qs, g.rs and g.ph are the live maps            *)
(* g.types(), g.qubits(), g.rows() and g.phases(); g.et maps every edge    *)
(* {v, w} to its type.  g.rs holds twice the row, so that the half row of  *)
(* line 211 is a whole number; Row(r) is row r in that unit.  A phase p    *)
(* stands for p/4 (in units of pi), a vertex phase is kept modulo 8.       *)
(***************************************************************************)
Row(r) == 2 * r

vertices(g0) == Ascending(DOMAIN g0.ty)

connected(g0, v, w) == {v, w} \in DOMAIN g0.et

edge_type(g0, v, w) == g0.et[{v, w}]

neighbours(g0, v) == Ascending({w \in DOMAIN g0.ty : connected(g0, v, w)})

toggle_edge(et) == IF et = "SIMPLE" THEN "HADAMARD" ELSE "SIMPLE"

\* g.add_vertex(ty, q, r): the new vertex is g0.next; r in half rows
add_vertex(g0, t, q, r) ==
  [g0 EXCEPT !.ty = (g0.next :> t) @@ @,
             !.qs = (g0.next :> q) @@ @,
             !.rs = (g0.next :> r) @@ @,
             !.ph = (g0.next :> 0) @@ @,
             !.next = @ + 1]

add_edge(g0, v, w, et) == [g0 EXCEPT !.et = ({v, w} :> et) @@ @]

remove_edge(g0, v, w) ==
  [g0 EXCEPT !.et = [e \in (DOMAIN g0.et) \ {{v, w}} |-> g0.et[e]]]

set_edge_type(g0, v, w, et) == [g0 EXCEPT !.et[{v, w}] = et]

set_phase(g0, v, p) == [g0 EXCEPT !.ph[v] = p % 8]

set_row(g0, v, r) == [g0 EXCEPT !.rs[v] = r]

set_qubit(g0, v, q) == [g0 EXCEPT !.qs[v] = q]

remove_vertices(g0, S) ==
  LET keep == (DOMAIN g0.ty) \ S
  IN [g0 EXCEPT !.ty = [v \in keep |-> g0.ty[v]],
                !.qs = [v \in keep |-> g0.qs[v]],
                !.rs = [v \in keep |-> g0.rs[v]],
                !.ph = [v \in keep |-> g0.ph[v]],
                !.et = [e \in {e \in DOMAIN g0.et : e \cap S = {}} |-> g0.et[e]]]

\* list.sort(key=g.qubit): a stable sort
RECURSIVE SortByQubit(_, _)
SortByQubit(g0, s) ==
  IF s = <<>> THEN <<>>
  ELSE LET k == CHOOSE k \in 1..Len(s) :
                  /\ \A j \in 1..Len(s) : g0.qs[s[k]] <= g0.qs[s[j]]
                  /\ \A j \in 1..(k - 1) : g0.qs[s[j]] # g0.qs[s[k]]
       IN <<s[k]>> \o SortByQubit(g0, SubSeq(s, 1, k - 1) \o SubSeq(s, k + 1, Len(s)))

\* a gate record of the circuit
Gate(name, phase, qubits) == [name |-> name, phase |-> phase, qubits |-> qubits]

NoError == [kind |-> "", msg |-> ""]

Error(kind, msg) == [kind |-> kind, msg |-> msg]

(***************************************************************************)
(* GF(2) matrices (pyzx.linalg.Mat2 is not part of extract.py).  A matrix  *)
(* is the list of its rows; row and column numbers start at 1 here.        *)
(***************************************************************************)
\* bi_adj(g, vs, ws): a row per vertex of ws, a column per vertex of vs
bi_adj(g0, vs, ws) ==
  [i \in 1..Len(ws) |->
     [j \in 1..Len(vs) |-> IF connected(g0, vs[j], ws[i]) THEN 1 ELSE 0]]

MatCols(m) == IF Len(m) = 0 THEN 0 ELSE Len(m[1])

\* m.row_add(r0, r1): row r0 is added to row r1
row_add(m, r0, r1) ==
  [m EXCEPT ![r1] = [j \in 1..Len(m[r1]) |-> (m[r1][j] + m[r0][j]) % 2]]

RECURSIVE RowAdds(_, _)
RowAdds(m, ops) ==
  IF ops = <<>> THEN m ELSE RowAdds(row_add(m, Head(ops)[1], Head(ops)[2]), Tail(ops))

\* forward elimination of m.gauss from column col on: st = [m, ops, pivots],
\* ops the row additions made, pivots the pivot columns found so far
RECURSIVE GaussForward(_, _)
GaussForward(st, col) ==
  IF col > MatCols(st.m) \/ Len(st.pivots) >= Len(st.m) THEN st
  ELSE LET prow == Len(st.pivots) + 1
           cand == {r \in prow..Len(st.m) : st.m[r][col] = 1}
       IN IF cand = {} THEN GaussForward(st, col + 1)
          ELSE LET r0 == CHOOSE r \in cand : \A x \in cand : r <= x
                   ops0 == IF r0 # prow THEN <<<<r0, prow>>>> ELSE <<>>
                   m0 == RowAdds(st.m, ops0)
                   ops1 == [k \in 1..Len(Ascending({r \in (prow + 1)..Len(m0) : m0[r][col] = 1})) |->
                              <<prow, Ascending({r \in (prow + 1)..Len(m0) : m0[r][col] = 1})[k]>>]
               IN GaussForward([m |-> RowAdds(m0, ops1),
                                ops |-> st.ops \o ops0 \o ops1,
                                pivots |-> Append(st.pivots, col)], col + 1)

\* back substitution of m.gauss(full_reduce=True), from the last pivot down
RECURSIVE GaussBackward(_, _)
GaussBackward(st, p) ==
  IF p < 1 THEN st
  ELSE LET col == st.pivots[p]
           above == Ascending({r \in 1..(p - 1) : st.m[r][col] = 1})
           ops1 == [k \in 1..Len(above) |-> <<p, above[k]>>]
       IN GaussBackward([st EXCEPT !.m = RowAdds(st.m, ops1), !.ops = st.ops \o ops1], p - 1)

\* m.gauss(full_reduce=True, x=recorder): the reduced matrix, the row
\* additions reported to the recorder and the pivot columns
gauss(m) ==
  LET fw == GaussForward([m |-> m, ops |-> <<>>, pivots |-> <<>>], 1)
  IN GaussBackward(fw, Len(fw.pivots))

rank(m) == Len(gauss(m).pivots)

\* m.factor(): x and y with m = x * y, y of rank(m) rows
factor(m) ==
  LET gm == gauss(m)
      r == Len(gm.pivots)
  IN [x |-> [i \in 1..Len(m) |-> [j \in 1..r |-> m[i][gm.pivots[j]]]],
      y |-> [i \in 1..r |-> gm.m[i]]]

\* some row of the matrix has exactly one nonzero entry
HasUnitRow(m) == \E i \in 1..Len(m) : Sum(m[i]) = 1

(***************************************************************************)
(* streaming_extract (extract.py 108-344).  The progress counters          *)
(* nodestotal, nodesparsed and nodesmarker only feed the printing under    *)
(* quiet=False and are left out.                                           *)
(***************************************************************************)
\* lines 137-143: the gadget map, a later vertex overwriting an earlier one
SpecialNodes(g0) ==
  LET leaves == {v \in DOMAIN g0.ty :
                   /\ Len(neighbours(g0, v)) = 1
                   /\ v \notin g0.inputs
                   /\ v \notin g0.outputs}
      anchors == {neighbours(g0, v)[1] : v \in leaves}
  IN [n \in anchors |->
        CHOOSE v \in leaves :
          /\ neighbours(g0, v)[1] = n
          /\ \A u \in leaves : neighbours(g0, u)[1] = n => u <= v]

\* lines 142-143: every vertex beyond row 1 is pushed 20 rows on
PushRows(g0) ==
  [g0 EXCEPT !.rs = [v \in DOMAIN g0.rs |->
                       IF g0.rs[v] > Row(1) THEN g0.rs[v] + Row(20) ELSE g0.rs[v]]]

MaxOf(S) == CHOOSE x \in S : \A y \in S : y <= x

\* lines 128-145
Start ==
  /\ pc = "start"
  /\ c' = <<>>
  /\ leftrow' = 1
  /\ maxq' = MaxOf({g.qs[v] : v \in DOMAIN g.qs}) + 1
  /\ special_nodes' = SpecialNodes(g)
  /\ g' = PushRows(g)
  /\ tried_id_simp' = FALSE
  /\ pc' = "absorb"
  /\ UNCHANGED <<left, right, good_verts, good_neighs, boundary_verts,
                 allow_ancillae, stopcount, raised, ps, mo, rbr, me>>

\* the frontier, line 147
Frontier(g0, lr) == SelectSeq(vertices(g0), LAMBDA v : g0.rs[v] = Row(lr))

\* an absorption that emits the Hadamard and phase gates of a vertex
\* without looking at its parents
AbsorbVertexUnchecked(st, v, lr) ==
  LET g0 == st.g
      q == g0.qs[v]
      neigh == SelectSeq(neighbours(g0, v), LAMBDA w : g0.rs[w] < Row(lr))
      had == Len(neigh) > 0 /\ edge_type(g0, neigh[1], v) = "HADAMARD"
      c1 == IF had THEN Append(st.c, Gate("HAD", 0, <<q>>)) ELSE st.c
      g1 == IF had THEN set_edge_type(g0, neigh[1], v, "SIMPLE") ELSE g0
  IN IF g0.ty[v] # "BOUNDARY" /\ g0.ph[v] # 0
       THEN [g |-> set_phase(g1, v, 0),
             c |-> Append(c1, Gate(IF g0.ty[v] = "Z" THEN "ZPhase" ELSE "XPhase",
                                   g0.ph[v], <<q>>)),
             raised |-> IF Len(neigh) # 1 THEN Error("TypeError", "multiple parents")
                        ELSE st.raised]
       ELSE [g |-> g1, c |-> c1,
             raised |-> IF Len(neigh) # 1 THEN Error("TypeError", "multiple parents")
                        ELSE st.raised]

\* the body of the first loop over the frontier, lines 156-173;
\* st = [g, c, raised]
AbsorbVertex(st, v, lr) ==
  LET g0 == st.g
      q == g0.qs[v]
      phase == g0.ph[v]
      t == g0.ty[v]
      neigh == SelectSeq(neighbours(g0, v), LAMBDA w : g0.rs[w] < Row(lr))
  IN IF Len(neigh) # 1
       THEN [st EXCEPT !.raised = Error("TypeError", "multiple parents")]
     ELSE IF g0.qs[neigh[1]] # q
       THEN [st EXCEPT !.raised = Error("TypeError", "cross qubit connections")]
     ELSE LET n == neigh[1]
              had == edge_type(g0, n, v) = "HADAMARD"
              c1 == IF had THEN Append(st.c, Gate("HAD", 0, <<q>>)) ELSE st.c
              g1 == IF had THEN set_edge_type(g0, n, v, "SIMPLE") ELSE g0
          IN IF t = "BOUNDARY" THEN [st EXCEPT !.g = g1, !.c = c1]
             ELSE IF phase # 0
               THEN [st EXCEPT !.g = set_phase(g1, v, 0),
                               !.c = Append(c1, Gate(IF t = "Z" THEN "ZPhase" ELSE "XPhase",
                                                     phase, <<q>>))]
             ELSE [st EXCEPT !.g = g1, !.c = c1]

\* the first loop over the frontier, lines 153-173, stopped by a raise
RECURSIVE AbsorbLoop(_, _, _, _)
AbsorbLoop(st, lst, k, lr) ==
  IF k > Len(lst) \/ st.raised # NoError THEN st
  ELSE AbsorbLoop(AbsorbVertex(st, lst[k], lr), lst, k + 1, lr)

\* lines 147-173: the frontier is read and its single-qubit gates absorbed
Absorb ==
  /\ pc = "absorb"
  /\ LET lst == Frontier(g, leftrow)
         st == AbsorbLoop([g |-> g, c |-> c, raised |-> NoError], lst, 1, leftrow)
     IN /\ left' = lst
        /\ g' = st.g
        /\ c' = st.c
        /\ raised' = st.raised
        /\ pc' = IF st.raised # NoError THEN "raised" ELSE "local"
  /\ boundary_verts' = <<>>
  /\ right' = {}
  /\ good_verts' = <<>>
  /\ good_neighs' = <<>>
  /\ UNCHANGED <<leftrow, maxq, special_nodes, tried_id_simp, allow_ancillae,
                 stopcount, ps, mo, rbr, me>>

\* the gate of one edge between two frontier vertices, lines 179-191;
\* st as in LocalVertex
LocalEdge(st, v, n) ==
  LET g0 == st.g
      t == g0.ty[v]
      q == g0.qs[v]
      t2 == g0.ty[n]
      q2 == g0.qs[n]
  IN IF t = t2
       THEN IF edge_type(g0, v, n) # "HADAMARD"
              THEN [st EXCEPT !.raised = Error("TypeError", "vertical connection, same type")]
              ELSE [st EXCEPT !.c = Append(st.c, Gate(IF t = "Z" THEN "CZ" ELSE "CX", 0, <<q2, q>>)),
                              !.g = remove_edge(g0, v, n)]
       ELSE IF edge_type(g0, v, n) # "SIMPLE"
              THEN [st EXCEPT !.raised = Error("TypeError", "vertical connection, different type")]
              ELSE [st EXCEPT !.c = Append(st.c, Gate("CNOT", 0, IF t = "Z" THEN <<q, q2>> ELSE <<q2, q>>)),
                              !.g = remove_edge(g0, v, n)]

RECURSIVE LocalEdges(_, _, _, _)
LocalEdges(st, v, neigh, k) ==
  IF k > Len(neigh) \/ st.raised # NoError THEN st
  ELSE LocalEdges(LocalEdge(st, v, neigh[k]), v, neigh, k + 1)

\* the body of the second loop over the frontier, lines 175-206;
\* st = [g, c, raised, right, good_verts, good_neighs, boundary_verts, postselects]
LocalVertex(st, v, lr, ancillae) ==
  LET neigh == SelectSeq(neighbours(st.g, v), LAMBDA w : st.g.rs[w] = Row(lr) /\ w < v)
      s1 == LocalEdges(st, v, neigh, 1)
      d == SelectSeq(neighbours(s1.g, v), LAMBDA w : s1.g.rs[w] > Row(lr))
      s2 == [s1 EXCEPT !.right = @ \cup Range(d)]
  IN IF s1.raised # NoError THEN s1
     ELSE IF Len(d) = 0
       THEN IF ~ancillae THEN [s2 EXCEPT !.raised = Error("TypeError", "Not circuit like")]
            ELSE [s2 EXCEPT !.postselects = Append(@, v)]
     ELSE IF Len(d) = 1
       THEN IF s2.g.ty[d[1]] # "BOUNDARY"
              THEN [s2 EXCEPT !.good_verts = Append(@, v), !.good_neighs = Append(@, d[1])]
              ELSE [s2 EXCEPT !.boundary_verts = Append(@, v), !.right = @ \ {d[1]}]
     ELSE s2

RECURSIVE LocalLoop(_, _, _, _, _)
LocalLoop(st, lst, k, lr, ancillae) ==
  IF k > Len(lst) \/ st.raised # NoError THEN st
  ELSE LocalLoop(LocalVertex(st, lst[k], lr, ancillae), lst, k + 1, lr, ancillae)

\* the loop over postselects, lines 207-213; st = [g, c, left, maxq]
RECURSIVE PostSelectLoop(_, _, _, _)
PostSelectLoop(st, posts, k, lr) ==
  IF k > Len(posts) THEN st
  ELSE LET v == posts[k]
       IN PostSelectLoop(
            [g |-> set_row(st.g, v, Row(lr) - 1),
             c |-> Append(st.c, Gate("PostSelect", 0, <<st.g.qs[v]>>)),
             left |-> Remove(st.left, v),
             maxq |-> IF st.g.qs[v] = st.maxq - 1 THEN st.maxq - 1 ELSE st.maxq],
            posts, k + 1, lr)

\* lines 174-213: the gates between frontier vertices, the classification of
\* the frontier and the post-selections
LocalGates ==
  /\ pc = "local"
  /\ LET s1 == LocalLoop([g |-> g, c |-> c, raised |-> NoError, right |-> {},
                          good_verts |-> <<>>, good_neighs |-> <<>>,
                          boundary_verts |-> <<>>, postselects |-> <<>>],
                         left, 1, leftrow, allow_ancillae)
         s2 == PostSelectLoop([g |-> s1.g, c |-> s1.c, left |-> left, maxq |-> maxq],
                              s1.postselects, 1, leftrow)
     IN IF s1.raised # NoError
          THEN /\ g' = s1.g
               /\ c' = s1.c
               /\ raised' = s1.raised
               /\ pc' = "raised"
               /\ UNCHANGED <<left, maxq>>
               /\ right' = s1.right
               /\ good_verts' = s1.good_verts
               /\ good_neighs' = s1.good_neighs
               /\ boundary_verts' = s1.boundary_verts
          ELSE /\ g' = s2.g
               /\ c' = s2.c
               /\ left' = s2.left
               /\ maxq' = s2.maxq
               /\ right' = s1.right
               /\ good_verts' = s1.good_verts
               /\ good_neighs' = s1.good_neighs
               /\ boundary_verts' = s1.boundary_verts
               /\ pc' = IF s1.good_verts = <<>> THEN "ladder" ELSE "advance"
               /\ UNCHANGED raised
  /\ UNCHANGED <<leftrow, special_nodes, tried_id_simp, allow_ancillae, stopcount, ps, mo, rbr, me>>

\* a direct extraction that gives the gate the leaf's phase whatever the
\* anchor's phase
DirectGadgetLeafPhase(st, n, lst) ==
  LET targets == Range(neighbours(st.g, n)) \ {st.special_nodes[n]}
      nphase == st.g.ph[n]
      phase == st.g.ph[st.special_nodes[n]]
      targetlist == Ascending(targets)
  IN IF ~(targets \subseteq Range(lst)) THEN st
     ELSE IF nphase \notin {0, 4}
       THEN [st EXCEPT !.raised = Error("Exception", "non-Pauli Phase")]
     ELSE [st EXCEPT
             !.c = Append(@, Gate("ParityPhase", phase,
                                  [k \in 1..Len(targetlist) |-> st.g.qs[targetlist[k]]])),
             !.g = remove_vertices(@, {st.special_nodes[n], n}),
             !.right = @ \ {n},
             !.special_nodes = [a \in (DOMAIN @) \ {n} |-> @[a]],
             !.have_removed_gadgets = TRUE]

\* the body of the loop over the gadget anchors next to the frontier, lines
\* 219-231; st = [g, c, right, special_nodes, raised, have_removed_gadgets]
DirectGadget(st, n, lst) ==
  LET targets == Range(neighbours(st.g, n)) \ {st.special_nodes[n]}
      nphase == st.g.ph[n]
      phase == st.g.ph[st.special_nodes[n]]
      targetlist == Ascending(targets)
  IN IF ~(targets \subseteq Range(lst)) THEN st
     ELSE IF nphase \notin {0, 4}
       THEN [st EXCEPT !.raised = Error("Exception", "non-Pauli Phase")]
     ELSE [st EXCEPT
             !.c = Append(@, Gate("ParityPhase", phase * (IF nphase # 0 THEN -1 ELSE 1),
                                  [k \in 1..Len(targetlist) |-> st.g.qs[targetlist[k]]])),
             !.g = remove_vertices(@, {st.special_nodes[n], n}),
             !.right = @ \ {n},
             !.special_nodes = [a \in (DOMAIN @) \ {n} |-> @[a]],
             !.have_removed_gadgets = TRUE]

RECURSIVE DirectGadgets(_, _, _, _)
DirectGadgets(st, anchors, k, lst) ==
  IF k > Len(anchors) \/ st.raised # NoError THEN st
  ELSE DirectGadgets(DirectGadget(st, anchors[k], lst), anchors, k + 1, lst)

Cutoff(gates) == stopcount # -1 /\ Len(gates) > stopcount

\* lines 214-233: without an advanceable vertex the loop ends when only
\* outputs are left, and else extracts the gadgets that sit on the frontier
Ladder ==
  /\ pc = "ladder"
  /\ IF \A v \in right : g.ty[v] = "BOUNDARY"
       THEN /\ pc' = "final"
            /\ UNCHANGED <<g, c, left, right, special_nodes, raised>>
       ELSE LET lst == RemoveAll(left, boundary_verts)
                st == DirectGadgets([g |-> g, c |-> c, right |-> right,
                                     special_nodes |-> special_nodes, raised |-> NoError,
                                     have_removed_gadgets |-> FALSE],
                                    Ascending(right \cap DOMAIN special_nodes), 1, lst)
            IN /\ left' = lst
               /\ g' = st.g
               /\ c' = st.c
               /\ right' = st.right
               /\ special_nodes' = st.special_nodes
               /\ raised' = st.raised
               /\ pc' = IF st.raised # NoError THEN "raised"
                        ELSE IF Cutoff(st.c) THEN "returned"
                        ELSE IF st.have_removed_gadgets THEN "absorb"
                        ELSE "stall"
  /\ UNCHANGED <<leftrow, maxq, tried_id_simp, good_verts, good_neighs, boundary_verts,
                 allow_ancillae, stopcount, ps, mo, rbr, me>>

\* lines 311-313, the successors take their place on the new frontier
RECURSIVE PullNeighs(_, _, _, _, _)
PullNeighs(g0, verts, neighs, k, lr) ==
  IF k > Len(neighs) THEN g0
  ELSE PullNeighs(set_qubit(set_row(g0, neighs[k], Row(lr + 1)), neighs[k], g0.qs[verts[k]]),
                  verts, neighs, k + 1, lr)

\* an advance that leaves the successors on their old qubits
AdvanceRowsKeepQubit(g0, verts, neighs, lr) ==
  LET g1 == [g0 EXCEPT !.rs = [v \in DOMAIN g0.rs |->
                                 IF g0.rs[v] < Row(lr) \/ InList(verts, v)
                                   THEN g0.rs[v] ELSE g0.rs[v] + Row(1)]]
  IN [g1 EXCEPT !.rs = [v \in DOMAIN g1.rs |->
                          IF InList(neighs, v) THEN Row(lr + 1) ELSE g1.rs[v]]]

\* lines 307-313
AdvanceRows(g0, verts, neighs, lr) ==
  PullNeighs([g0 EXCEPT !.rs = [v \in DOMAIN g0.rs |->
                                  IF g0.rs[v] < Row(lr) \/ InList(verts, v)
                                    THEN g0.rs[v] ELSE g0.rs[v] + Row(1)]],
             verts, neighs, 1, lr)

\* an advance that leaves without looking at the gate count
AdvanceExitNoCutoff(gates) == "absorb"

\* line 322
AdvanceExit(gates) == IF Cutoff(gates) THEN "returned" ELSE "absorb"

\* lines 307-322: the frontier moves one row on
Advance ==
  /\ pc = "advance"
  /\ g' = AdvanceRows(g, good_verts, good_neighs, leftrow)
  /\ tried_id_simp' = FALSE
  /\ leftrow' = leftrow + 1
  /\ pc' = AdvanceExit(c)
  /\ UNCHANGED <<c, maxq, special_nodes, left, right, good_verts, good_neighs,
                 boundary_verts, allow_ancillae, stopcount, raised, ps, mo, rbr, me>>

\* the body of the last loop, lines 327-340;
\* st = [g, c, raised, swap_map, leftover_swaps]
FinalVertex(st, v, lr) ==
  LET q == st.g.qs[v]
      neigh == SelectSeq(neighbours(st.g, v), LAMBDA w : st.g.rs[w] > Row(lr))
  IN IF Len(neigh) # 1
       THEN [st EXCEPT !.raised = Error("TypeError", "Not fully reducable")]
     ELSE IF st.g.ty[neigh[1]] # "BOUNDARY"
       THEN [st EXCEPT !.raised = Error("TypeError", "Not fully reducable")]
     ELSE LET n == neigh[1]
              had == edge_type(st.g, n, v) = "HADAMARD"
          IN [st EXCEPT
                !.c = IF had THEN Append(@, Gate("HAD", 0, <<q>>)) ELSE @,
                !.g = IF had THEN set_edge_type(@, n, v, "SIMPLE") ELSE @,
                !.leftover_swaps = @ \/ st.g.qs[n] # q,
                !.swap_map = (q :> st.g.qs[n]) @@ @]

RECURSIVE FinalLoop(_, _, _, _)
FinalLoop(st, lst, k, lr) ==
  IF k > Len(lst) \/ st.raised # NoError THEN st
  ELSE FinalLoop(FinalVertex(st, lst[k], lr), lst, k + 1, lr)

\* lines 342-343
SwapGates(swaps) == [k \in 1..Len(swaps) |-> Gate("SWAP", 0, swaps[k])]

\* lines 324-344: the last Hadamards and the swaps of the leftover permutation
Finalize ==
  /\ pc = "final"
  /\ LET st == FinalLoop([g |-> g, c |-> c, raised |-> NoError,
                          swap_map |-> <<>>, leftover_swaps |-> FALSE],
                         left, 1, leftrow)
         res == permutation_as_swaps(st.swap_map)
     IN IF st.raised # NoError
          THEN g' = st.g /\ c' = st.c /\ raised' = st.raised /\ pc' = "raised"
        ELSE IF ~st.leftover_swaps
          THEN g' = st.g /\ c' = st.c /\ raised' = NoError /\ pc' = "returned"
        ELSE IF res.raised # ""
          THEN g' = st.g /\ c' = st.c /\ raised' = Error(res.raised, "permutation_as_swaps")
               /\ pc' = "raised"
        ELSE g' = st.g /\ c' = st.c \o SwapGates(res.swaps) /\ raised' = NoError
             /\ pc' = "returned"
  /\ UNCHANGED <<leftrow, maxq, special_nodes, tried_id_simp, left, right, good_verts,
                 good_neighs, boundary_verts, allow_ancillae, stopcount, ps, mo, rbr, me>>

(***************************************************************************)
(* The diagrams given to streaming_extract.  A diagram has nq inputs on    *)
(* row 0, one frontier vertex per input on row 1 (the form g.normalise()   *)
(* leaves), nm further vertices on row 2, at most one phase gadget (an     *)
(* anchor and its leaf) and its outputs on row 3.  Vertices are numbered   *)
(* inputs first, then the row-1 vertices, the row-2 vertices, the gadget   *)
(* and the outputs.                                                        *)
(***************************************************************************)
In(d, q) == q
Fr(d, q) == d.nq + q
Mid(d, j) == 2 * d.nq + j
Anchor(d) == 2 * d.nq + d.nm
Leaf(d) == 2 * d.nq + d.nm + 1
Out(d, k) == 2 * d.nq + d.nm + (IF d.gadget THEN 2 ELSE 0) + k

\* the typed edges of the diagram described by d
DiagramEdges(d) ==
  {<<{In(d, q), Fr(d, q)}, IF d.deco[q] = "had" THEN "HADAMARD" ELSE "SIMPLE">> :
      q \in {q \in 0..(d.nq - 1) : q \notin d.orphans}}
  \cup {<<{In(d, p[1]), Fr(d, p[2])}, "SIMPLE">> : p \in d.extra}
  \cup {<<{Fr(d, p[1]), Fr(d, p[2])}, "HADAMARD">> : p \in d.cz}
  \cup {<<{Fr(d, p[1]), Mid(d, p[2])}, "HADAMARD">> : p \in d.A}
  \cup {<<{Anchor(d), t}, "HADAMARD">> : t \in (IF d.gadget THEN d.T \cup {Leaf(d)} ELSE {})}
  \cup {<<{d.out[k], Out(d, k)}, IF d.hout THEN "HADAMARD" ELSE "SIMPLE">> :
          k \in 0..(d.no - 1)}

\* the graph of the diagram described by d
Diagram(d) ==
  LET ins == {In(d, q) : q \in 0..(d.nq - 1)}
      frs == {Fr(d, q) : q \in 0..(d.nq - 1)}
      mids == {Mid(d, j) : j \in 0..(d.nm - 1)}
      gad == IF d.gadget THEN {Anchor(d), Leaf(d)} ELSE {}
      outs == {Out(d, k) : k \in 0..(d.no - 1)}
      V == ins \cup frs \cup mids \cup gad \cup outs
      E == DiagramEdges(d)
  IN [ty |-> [v \in V |-> IF v \in ins \cup outs THEN "BOUNDARY" ELSE "Z"],
      qs |-> [v \in V |-> IF v \in ins THEN v
                          ELSE IF v \in frs THEN v - d.nq
                          ELSE IF v \in mids THEN v - 2 * d.nq
                          ELSE IF v \in outs THEN v - Out(d, 0)
                          ELSE IF v = Anchor(d) THEN d.nq ELSE d.nq + 1],
      rs |-> [v \in V |-> IF v \in ins THEN Row(0)
                          ELSE IF v \in frs THEN Row(1)
                          ELSE IF v \in outs THEN Row(3) ELSE Row(2)],
      ph |-> [v \in V |-> IF v \in frs /\ d.deco[v - d.nq] = "phase" THEN 1
                          ELSE IF v \in gad THEN (IF v = Anchor(d) THEN d.pa ELSE d.pl)
                          ELSE 0],
      et |-> [e \in {p[1] : p \in E} |-> (CHOOSE p \in E : p[1] = e)[2]],
      next |-> Cardinality(V),
      inputs |-> ins,
      outputs |-> outs]

Plain(nq) == [q \in 0..(nq - 1) |-> "plain"]

Decorations(nq) == [0..(nq - 1) -> {"plain", "had", "phase"}]

NoGadget == [gadget |-> FALSE, T |-> {}, pa |-> 0, pl |-> 0]

\* wires that run from the inputs through one vertex each to the outputs,
\* permuted, with gates between neighbouring wires
Wires(nq) ==
  {[nq |-> nq, nm |-> 0, no |-> nq, deco |-> deco, orphans |-> {}, extra |-> {},
    cz |-> cz, A |-> {}, out |-> [k \in 0..(nq - 1) |-> nq + perm[k]], hout |-> hout]
   @@ NoGadget :
     deco \in Decorations(nq), perm \in PermDicts(nq),
     cz \in SUBSET {<<q, q + 1>> : q \in 0..(nq - 2)}, hout \in BOOLEAN}

\* wires one of whose row-1 vertices has no parent or two
Misparented(nq) ==
  {[nq |-> nq, nm |-> 0, no |-> nq, deco |-> deco,
    orphans |-> IF two THEN {} ELSE {k},
    extra |-> IF two THEN {<<(k + 1) % nq, k>>} ELSE {},
    cz |-> {}, A |-> {}, out |-> [j \in 0..(nq - 1) |-> nq + j], hout |-> FALSE]
   @@ NoGadget :
     deco \in Decorations(nq), k \in 0..(nq - 1),
     two \in {t \in BOOLEAN : t => nq > 1}}

\* wires of which only those of K go on from their row-1 vertex, reaching
\* the outputs in the order perm
DroppedTo(nq, K) ==
  {[nq |-> nq, nm |-> 0, no |-> Cardinality(K), deco |-> Plain(nq), orphans |-> {},
    extra |-> {}, cz |-> {}, A |-> {},
    out |-> [k \in 0..(Cardinality(K) - 1) |-> nq + Ascending(K)[perm[k] + 1]],
    hout |-> FALSE]
   @@ NoGadget :
     perm \in PermDicts(Cardinality(K))}

Dropped(nq) ==
  UNION {DroppedTo(nq, K) : K \in (SUBSET (0..(nq - 1))) \ {0..(nq - 1)}}

\* where output k hangs: on row-2 vertex k, or on row-1 vertex k when
\* there is no such vertex
LayeredOut(nq, nm) == [k \in 0..(nq - 1) |-> IF k < nm THEN 2 * nq + k ELSE nq + k]

\* row-1 vertices joined in any way to nm row-2 vertices
Layered(nq, nm) ==
  {[nq |-> nq, nm |-> nm, no |-> nq,
    deco |-> [q \in 0..(nq - 1) |-> IF q = 0 THEN d0 ELSE "plain"],
    orphans |-> {}, extra |-> {}, cz |-> {}, A |-> A,
    out |-> LayeredOut(nq, nm), hout |-> FALSE]
   @@ NoGadget :
     d0 \in {"plain", "phase"},
     A \in SUBSET ((0..(nq - 1)) \X (0..(nm - 1)))}

\* the same with a phase gadget whose anchor is joined to the vertices T
Gadgets(nq, nm) ==
  {[nq |-> nq, nm |-> nm, no |-> nq, deco |-> Plain(nq),
    orphans |-> {}, extra |-> {}, cz |-> {}, A |-> A,
    out |-> LayeredOut(nq, nm), hout |-> FALSE,
    gadget |-> TRUE, T |-> T, pa |-> pa, pl |-> 1] :
     A \in SUBSET ((0..(nq - 1)) \X (0..(nm - 1))),
     T \in (SUBSET (nq..(2 * nq + nm - 1))) \ {{}},
     pa \in {0, 4, 1}}

\* the layered diagrams with one more output, which hangs on a vertex x
\* that has an output already or is joined to none
Forked(nq, nm) ==
  {[nq |-> nq, nm |-> nm, no |-> nq + 1, deco |-> Plain(nq),
    orphans |-> {}, extra |-> {}, cz |-> {}, A |-> A,
    out |-> [k \in 0..nq |-> IF k < nq THEN LayeredOut(nq, nm)[k] ELSE x],
    hout |-> FALSE]
   @@ NoGadget :
     A \in SUBSET ((0..(nq - 1)) \X (0..(nm - 1))),
     x \in nq..(2 * nq + nm - 1)}

\* the diagrams with a phase gadget and one more output, which hangs on a
\* row-1 vertex x
ForkedGadgets(nq, nm) ==
  {[nq |-> nq, nm |-> nm, no |-> nq + 1, deco |-> Plain(nq),
    orphans |-> {}, extra |-> {}, cz |-> {}, A |-> A,
    out |-> [k \in 0..nq |-> IF k < nq THEN LayeredOut(nq, nm)[k] ELSE x],
    hout |-> FALSE,
    gadget |-> TRUE, T |-> T, pa |-> 0, pl |-> 1] :
     A \in SUBSET ((0..(nq - 1)) \X (0..(nm - 1))),
     T \in (SUBSET (nq..(2 * nq + nm - 1))) \ {{}},
     x \in nq..(2 * nq - 1)}

\* the diagrams of at most maxnq qubits and maxnm row-2 vertices
Diagrams(maxnq, maxnm) ==
  UNION {Wires(nq) \cup Misparented(nq) \cup Dropped(nq)
           \cup UNION {Layered(nq, nm) : nm \in 1..maxnm}
           \cup UNION {Forked(nq, nm) : nm \in 0..maxnm}
           \cup UNION {ForkedGadgets(nq, nm) : nm \in 1..maxnm}
           \cup UNION {Gadgets(nq, nm) : nm \in 0..maxnm} :
         nq \in 1..maxnq}

InitExtract ==
  /\ g \in {Diagram(d) : d \in Diagrams(MaxQubits, MaxMids)}
  /\ allow_ancillae \in BOOLEAN
  /\ stopcount \in {-1} \cup 0..MaxStop
  /\ pc = "start"
  /\ c = <<>>
  /\ leftrow = 0
  /\ maxq = 0
  /\ special_nodes = <<>>
  /\ tried_id_simp = FALSE
  /\ left = <<>>
  /\ right = {}
  /\ good_verts = <<>>
  /\ good_neighs = <<>>
  /\ boundary_verts = <<>>
  /\ raised = NoError
  /\ ps = Idle
  /\ mo = Idle
  /\ rbr = Idle
  /\ me = Idle

(***************************************************************************)
(* Cut utilities (extract.py 39-106).                                      *)
(***************************************************************************)
\* fresh Hadamard pairs of cut_edges, lines 64-71, on qubits 0..cut_rank-1;
\* st = [g, left_verts, right_verts]
RECURSIVE CutPairs(_, _, _, _)
CutPairs(st, i, cut_rank, max_r) ==
  IF i >= cut_rank THEN st
  ELSE LET v1 == st.g.next
           v2 == st.g.next + 1
           g1 == add_vertex(st.g, "Z", i, max_r + Row(1))
           g2 == add_vertex(g1, "Z", i, max_r + Row(2))
       IN CutPairs([g |-> add_edge(g2, v1, v2, "HADAMARD"),
                    left_verts |-> Append(st.left_verts, v1),
                    right_verts |-> Append(st.right_verts, v2)],
                   i + 1, cut_rank, max_r)

\* the edges a factor asks for, lines 74-83: an edge from[j]--to[i] for
\* every nonzero entry (i, j) of the matrix
FactorEdges(g0, mat, from, to) ==
  LET on == {e \in {<<i, j>> : i \in 1..Len(mat), j \in 1..MatCols(mat)} : mat[e[1]][e[2]] = 1}
      add == {{from[e[2]], to[e[1]]} : e \in on}
  IN [g0 EXCEPT !.et = [e \in add |-> "HADAMARD"] @@ @]

\* lines 42-51: the rows beyond max_r move on by two and the edges between
\* left and right go
CutClear(g0, lft, rgt, max_r) ==
  LET across == {{lft[p[1]], rgt[p[2]]} : p \in (1..Len(lft)) \X (1..Len(rgt))}
  IN [g0 EXCEPT !.rs = [v \in DOMAIN g0.rs |->
                          IF g0.rs[v] > max_r THEN g0.rs[v] + Row(2) ELSE g0.rs[v]],
                !.et = [e \in (DOMAIN g0.et) \ across |-> g0.et[e]]]

\* lines 53-86; st = [g, left_verts, right_verts] with the fresh pairs
CutJoin(st, f, lft, rgt) ==
  [g |-> FactorEdges(FactorEdges(st.g, f.y, lft, st.left_verts), f.x, st.right_verts, rgt),
   left_verts |-> st.left_verts]

\* cut_edges(g, left, right) with available=None: [g, left_verts]
cut_edges(g0, lft, rgt) ==
  LET f == factor(bi_adj(g0, lft, rgt))
      max_r == MaxOf({g0.rs[lft[k]] : k \in 1..Len(lft)})
  IN CutJoin(CutPairs([g |-> CutClear(g0, lft, rgt, max_r), left_verts |-> <<>>,
                       right_verts |-> <<>>], 0, Len(f.y), max_r),
             f, lft, rgt)

\* unspider_by_row(g, v): [g, w]
unspider_by_row(g0, v) ==
  LET r == g0.rs[v]
      w == g0.next
      g1 == add_vertex(g0, "Z", g0.qs[v], r - Row(1))
      back == {n \in Range(neighbours(g1, v)) : g1.rs[n] < r}
      moved == [e \in {{n, w} : n \in back} |->
                  g1.et[{(CHOOSE n \in back : {n, w} = e), v}]]
      kept == [e \in (DOMAIN g1.et) \ {{n, v} : n \in back} |-> g1.et[e]]
  IN [g |-> add_edge([g1 EXCEPT !.et = moved @@ kept], w, v, "SIMPLE"), w |-> w]

\* connectivity_from_biadj(g, m, left, right) with Hadamard edges: row i of
\* m is right[i], column j is left[j]
connectivity_from_biadj(g0, m, lft, rgt) ==
  LET pairs == {<<i, j>> : i \in 1..Len(rgt), j \in 1..Len(lft)}
      add == {{rgt[p[1]], lft[p[2]]} :
                p \in {p \in pairs : m[p[1]][p[2]] = 1 /\ ~connected(g0, rgt[p[1]], lft[p[2]])}}
      del == {{rgt[p[1]], lft[p[2]]} :
                p \in {p \in pairs : m[p[1]][p[2]] = 0 /\ connected(g0, rgt[p[1]], lft[p[2]])}}
  IN [g0 EXCEPT !.et = [e \in add |-> "HADAMARD"] @@ [e \in (DOMAIN g0.et) \ del |-> g0.et[e]]]

\* the buffer vertex put before an output w that sits in the right set,
\* lines 353-359 and 444-450: [g, w2]
BufferOutput(g0, w) ==
  LET w2 == g0.next
      g1 == add_vertex(g0, "Z", g0.qs[w], g0.rs[w] - Row(1))
      n == neighbours(g1, w)[1]
      et == edge_type(g1, n, w)
  IN [g |-> add_edge(add_edge(remove_edge(g1, n, w), n, w2, "HADAMARD"),
                     w2, w, toggle_edge(et)),
      w2 |-> w2]

(***************************************************************************)
(* reduce_bottom_rows (extract.py 531-554).  Rows and columns are numbered *)
(* from 1; st = [m, leading_one, kind, r], kind "" while running.          *)
(***************************************************************************)
FirstOne(row) == CHOOSE i \in 1..Len(row) : row[i] = 1 /\ \A j \in 1..(i - 1) : row[j] = 0

\* the while loop of lines 538-545 for row r; next() on a row without a
\* nonzero entry raises StopIteration
RECURSIVE ReduceTop(_, _)
ReduceTop(st, r) ==
  IF Sum(st.m[r]) = 0 THEN [st EXCEPT !.kind = "StopIteration"]
  ELSE LET i == FirstOne(st.m[r])
       IN IF i \in DOMAIN st.leading_one
            THEN ReduceTop([st EXCEPT !.m = row_add(st.m, st.leading_one[i], r)], r)
            ELSE [st EXCEPT !.leading_one = (i :> r) @@ @]

RECURSIVE ReduceTopRows(_, _, _)
ReduceTopRows(st, r, qubits) ==
  IF r > qubits \/ st.kind # "" THEN st
  ELSE ReduceTopRows(ReduceTop(st, r), r + 1, qubits)

\* the while loop of lines 547-553 for row r
RECURSIVE ReduceBottom(_, _)
ReduceBottom(st, r) ==
  IF Sum(st.m[r]) = 0 THEN [st EXCEPT !.kind = "return", !.r = r]
  ELSE LET i == FirstOne(st.m[r])
       IN IF i \notin DOMAIN st.leading_one THEN st
          ELSE ReduceBottom([st EXCEPT !.m = row_add(st.m, st.leading_one[i], r)], r)

RECURSIVE ReduceBottomRows(_, _)
ReduceBottomRows(st, r) ==
  IF st.kind # "" THEN st
  ELSE IF r > Len(st.m) THEN [st EXCEPT !.kind = "ValueError"]
  ELSE ReduceBottomRows(ReduceBottom(st, r), r + 1)

reduce_bottom_rows(m, qubits) ==
  ReduceBottomRows(
    ReduceTopRows([m |-> m, leading_one |-> <<>>, kind |-> "", r |-> 0], 1, qubits),
    qubits + 1)

(***************************************************************************)
(* A call of reduce_bottom_rows on any matrix of at most MaxRows rows and  *)
(* columns with any number of seed rows, as handle_phase_gadget calls it   *)
(* on line 433.                                                            *)
(***************************************************************************)
Matrices(nr, nc) == [1..nr -> [1..nc -> {0, 1}]]

RbInit ==
  \E nr \in 1..MaxRows : \E nc \in 1..MaxRows :
    \E m \in Matrices(nr, nc) : \E q \in 0..nr :
      rbr = [pc |-> "call", m |-> m, qubits |-> q, kind |-> "", r |-> 0]

RbCall ==
  /\ rbr.pc = "call"
  /\ \E res \in {reduce_bottom_rows(rbr.m, rbr.qubits)} :
       rbr' = [rbr EXCEPT !.pc = "done", !.kind = res.kind, !.r = res.r]
  /\ UNCHANGED <<ps, mo, me, xvars>>

RbNext == RbCall

InitReduce == RbInit /\ ps = Idle /\ mo = Idle /\ me = Idle /\ ExtractIdle

SpecReduce == InitReduce /\ [][RbNext]_vars

(***************************************************************************)
(* Helpers of pyzx.linalg that extract.py calls and does not define.       *)
(***************************************************************************)
\* column_optimal_swap(m): a matching of the columns of m to its rows; which
\* one is the heuristic's business, choice is the order of rows it prefers
column_optimal_swap(m, choice) == [k \in 1..MatCols(m) |-> choice[k]]

\* the orders in which n rows can be preferred
RowOrders(n) == {t \in [1..n -> 1..n] : \A a, b \in 1..n : t[a] = t[b] => a = b}

RECURSIVE SetQubits(_, _, _, _, _)
SetQubits(g0, verts, target, qv, k) ==
  IF k > Len(verts) THEN g0
  ELSE SetQubits(set_qubit(g0, verts[k], qv[target[k]]), verts, target, qv, k + 1)

(***************************************************************************)
(* The rewrites of pyzx.simplify and pyzx.rules that line 241-249 call     *)
(* and extract.py does not define: the removal of identity vertices and    *)
(* the fusion of spiders.                                                  *)
(***************************************************************************)
IsSpider(g0, v) == g0.ty[v] \in {"Z", "X"}

\* an edge of type et is added between v and w, next to the edge there may
\* be already: between spiders of one colour plain edges merge and pairs of
\* Hadamard edges cancel, between other vertices it is the other way round,
\* and a plain edge next to a Hadamard edge leaves one edge and the phase pi
add_edge_table(g0, v, w, et) ==
  LET old == IF connected(g0, v, w) THEN {edge_type(g0, v, w)} ELSE {}
      same == g0.ty[v] = g0.ty[w]
      both == old # {} /\ old # {et}
      twice == old = {et}
      cancels == IF same THEN et = "HADAMARD" ELSE et = "SIMPLE"
  IN IF old = {} THEN add_edge(g0, v, w, et)
     ELSE IF twice THEN (IF cancels THEN remove_edge(g0, v, w) ELSE g0)
     ELSE set_phase(set_edge_type(g0, v, w, IF same THEN "SIMPLE" ELSE "HADAMARD"),
                    v, g0.ph[v] + 4)

\* match_ids_parallel: the identity vertices among cand, none of them next
\* to a vertex looked at before it
RECURSIVE match_ids_parallel(_, _)
match_ids_parallel(g0, cand) ==
  IF cand = <<>> THEN <<>>
  ELSE LET v == Head(cand)
           ns == neighbours(g0, v)
       IN IF g0.ph[v] # 0 \/ ~IsSpider(g0, v) \/ Len(ns) # 2
            THEN match_ids_parallel(g0, Tail(cand))
            ELSE <<v>> \o match_ids_parallel(
                            g0, SelectSeq(Tail(cand), LAMBDA u : ~InList(ns, u)))

\* remove_ids for one match
remove_id(g0, v) ==
  LET ns == neighbours(g0, v)
      et == IF edge_type(g0, v, ns[1]) = edge_type(g0, v, ns[2]) THEN "SIMPLE" ELSE "HADAMARD"
  IN add_edge_table(remove_vertices(g0, {v}), ns[1], ns[2], et)

RECURSIVE remove_ids(_, _)
remove_ids(g0, ms) ==
  IF ms = <<>> THEN g0 ELSE remove_ids(remove_id(g0, Head(ms)), Tail(ms))

\* id_simp(g, matchf=rs[v] > leftrow): rounds of matching and removal until
\* nothing matches; st = [g, i], i the number of rounds that removed something
RECURSIVE id_simp(_, _)
id_simp(st, lr) ==
  LET cand == SelectSeq(vertices(st.g), LAMBDA v : st.g.rs[v] > Row(lr))
      ms == match_ids_parallel(st.g, cand)
  IN IF ms = <<>> THEN st
     ELSE id_simp([g |-> remove_ids(st.g, ms), i |-> st.i + 1], lr)

\* match_spider_parallel over the edges with both ends on rows >= leftrow:
\* plain edges between spiders of one colour, no two of them touching
\* neighbouring vertices; the pairs <<v1, v2>> with v1 < v2
RECURSIVE match_spider_parallel(_, _)
match_spider_parallel(g0, cand) ==
  IF cand = <<>> THEN <<>>
  ELSE LET e == Head(cand)
           near == Range(neighbours(g0, e[1])) \cup Range(neighbours(g0, e[2]))
       IN IF edge_type(g0, e[1], e[2]) # "SIMPLE" \/ g0.ty[e[1]] # g0.ty[e[2]]
               \/ ~IsSpider(g0, e[1])
            THEN match_spider_parallel(g0, Tail(cand))
            ELSE <<e>> \o match_spider_parallel(
                            g0, SelectSeq(Tail(cand), LAMBDA f : {f[1], f[2]} \cap near = {}))

RECURSIVE MoveEdges(_, _, _, _)
MoveEdges(g0, keep, gone, ns) ==
  IF ns = <<>> THEN g0
  ELSE MoveEdges(add_edge_table(g0, keep, Head(ns), edge_type(g0, gone, Head(ns))),
                 keep, gone, Tail(ns))

\* spider(g, m) with add_edge_table and remove_vertices for one match: gone
\* is fused into keep
fuse(g0, keep, gone) ==
  LET g1 == set_phase(g0, keep, g0.ph[keep] + g0.ph[gone])
      ns == SelectSeq(neighbours(g1, gone), LAMBDA w : w # keep)
  IN remove_vertices(MoveEdges(g1, keep, gone, ns), {gone})

\* lines 244-249: a frontier vertex is the one that stays
RECURSIVE FuseAll(_, _, _)
FuseAll(g0, ms, lft) ==
  IF ms = <<>> THEN g0
  ELSE LET e == Head(ms)
       IN FuseAll(IF InList(lft, e[1]) THEN fuse(g0, e[1], e[2]) ELSE fuse(g0, e[2], e[1]),
                  Tail(ms), lft)

FusableEdges(g0, lr) ==
  LET vs == {v \in DOMAIN g0.ty : g0.rs[v] >= Row(lr)}
      pairs == {<<v, w>> \in vs \X vs : v < w /\ connected(g0, v, w)}
  IN [k \in 1..Cardinality(pairs) |->
        CHOOSE p \in pairs :
          Cardinality({o \in pairs : o[1] < p[1] \/ (o[1] = p[1] /\ o[2] < p[2])}) = k - 1]

(***************************************************************************)
(* handle_phase_gadget (extract.py 412-529).                               *)
(***************************************************************************)
\* lines 428-430: list.remove(o) and list.append(o) for every o
RECURSIVE MoveToEnd(_, _)
MoveToEnd(s, os) ==
  IF os = <<>> THEN s ELSE MoveToEnd(Append(Remove(s, Head(os)), Head(os)), Tail(os))

\* lines 441-451; st = [g, right]
RECURSIVE HpgBuffers(_, _)
HpgBuffers(st, i) ==
  IF i > Len(st.right) THEN st
  ELSE IF st.right[i] \notin st.g.outputs THEN HpgBuffers(st, i + 1)
  ELSE LET b == BufferOutput(st.g, st.right[i])
       IN HpgBuffers([g |-> b.g, right |-> [st.right EXCEPT ![i] = b.w2]], i + 1)

RECURSIVE SetRows(_, _, _)
SetRows(g0, verts, r) ==
  IF verts = <<>> THEN g0 ELSE SetRows(set_row(g0, Head(verts), r), Tail(verts), r)

\* lines 489-500, for i from the last index down;
\* st = [g, gates, gadget_right, gadget_left, targets, raised]
RECURSIVE HpgMigrate(_, _, _, _)
HpgMigrate(st, i, lft, lrow) ==
  IF i < 1 \/ st.raised # NoError THEN st
  ELSE LET w == st.gadget_right[i]
           vs == SelectSeq(lft, LAMBDA v : connected(st.g, w, v))
       IN IF vs = <<>> THEN [st EXCEPT !.raised = Error("StopIteration", "")]
          ELSE LET v == vs[1]
                   g1 == set_qubit(set_edge_type(st.g, v, w, "SIMPLE"), w, st.g.qs[v])
                   qw == g1.qs[w]
               IN IF ~InList(st.targets, qw)
                    THEN HpgMigrate([st EXCEPT
                                       !.g = g1,
                                       !.gates = Append(@, Gate("HAD", 0, <<qw>>)),
                                       !.gadget_right = SubSeq(@, 1, i - 1) \o SubSeq(@, i + 1, Len(@)),
                                       !.targets = Append(@, qw),
                                       !.gadget_left = Append(@, v)],
                                    i - 1, lft, lrow)
                    ELSE HpgMigrate([st EXCEPT !.g = set_row(g1, w, lrow + Row(1))],
                                    i - 1, lft, lrow)

\* lines 515-518 and 522-523
RECURSIVE HpgBefore(_)
HpgBefore(rtargets) ==
  IF rtargets = <<>> THEN <<>>
  ELSE <<Gate("HAD", 0, <<Head(rtargets)>>), Gate("ZPhase", -2, <<Head(rtargets)>>),
         Gate("HAD", 0, <<Head(rtargets)>>)>> \o HpgBefore(Tail(rtargets))

RECURSIVE HpgAfter(_)
HpgAfter(rtargets) ==
  IF rtargets = <<>> THEN <<>>
  ELSE <<Gate("HAD", 0, <<Head(rtargets)>>), Gate("ZPhase", 2, <<Head(rtargets)>>)>>
       \o HpgAfter(Tail(rtargets))

\* an emission that also refuses a gadget with two left-targets
HpgEmitTwoLeft(st, lft, gadget, leaf, phase, lrow) ==
  IF st.raised # NoError
    THEN [g |-> st.g, left |-> lft, gates |-> <<>>, advanced |-> FALSE, raised |-> st.raised,
          nright |-> 0, nleft |-> 0]
  ELSE IF st.gadget_right = <<>>
    THEN [g |-> remove_vertices(st.g, {leaf, gadget}), left |-> lft,
          gates |-> Append(st.gates, Gate("ParityPhase", phase, st.targets)),
          advanced |-> FALSE, raised |-> NoError,
          nright |-> 0, nleft |-> Len(st.gadget_left)]
  ELSE IF Len(st.gadget_right) % 2 # 0 \/ Len(st.gadget_left) <= 2
    THEN [g |-> st.g, left |-> lft, gates |-> <<>>, advanced |-> FALSE,
          raised |-> Error("Exception", "Gadget seems non-unitary"),
          nright |-> Len(st.gadget_right), nleft |-> Len(st.gadget_left)]
  ELSE LET rtargets == [k \in 1..Len(st.gadget_right) |-> st.g.qs[st.gadget_right[k]]]
           phase2 == IF Len(st.gadget_right) % 4 # 0 THEN (-phase) % 8 ELSE phase
           stay == SelectSeq(lft, LAMBDA v : ~InList(rtargets, st.g.qs[v]))
       IN [g |-> remove_vertices(SetRows(st.g, stay, lrow + Row(1)), {leaf, gadget}),
           left |-> lft,
           gates |-> st.gates \o HpgBefore(rtargets)
                       \o <<Gate("ParityPhase", phase2, st.targets)>> \o HpgAfter(rtargets),
           advanced |-> TRUE, raised |-> NoError,
           nright |-> Len(st.gadget_right), nleft |-> Len(st.gadget_left)]

\* lines 502-529, after the loop of line 489; st as in HpgMigrate;
\* the result is [g, left, gates, advanced, raised] and, for the record,
\* the lengths nright and nleft of gadget_right and gadget_left after the
\* loop (0 when it was not run to its end)
HpgEmit(st, lft, gadget, leaf, phase, lrow) ==
  IF st.raised # NoError
    THEN [g |-> st.g, left |-> lft, gates |-> <<>>, advanced |-> FALSE, raised |-> st.raised,
          nright |-> 0, nleft |-> 0]
  ELSE IF st.gadget_right = <<>>
    THEN [g |-> remove_vertices(st.g, {leaf, gadget}), left |-> lft,
          gates |-> Append(st.gates, Gate("ParityPhase", phase, st.targets)),
          advanced |-> FALSE, raised |-> NoError,
          nright |-> 0, nleft |-> Len(st.gadget_left)]
  ELSE IF Len(st.gadget_right) % 2 # 0 \/ Len(st.gadget_left) = 1
    THEN [g |-> st.g, left |-> lft, gates |-> <<>>, advanced |-> FALSE,
          raised |-> Error("Exception", "Gadget seems non-unitary"),
          nright |-> Len(st.gadget_right), nleft |-> Len(st.gadget_left)]
  ELSE LET rtargets == [k \in 1..Len(st.gadget_right) |-> st.g.qs[st.gadget_right[k]]]
           phase2 == IF Len(st.gadget_right) % 4 # 0 THEN (-phase) % 8 ELSE phase
           stay == SelectSeq(lft, LAMBDA v : ~InList(rtargets, st.g.qs[v]))
       IN [g |-> remove_vertices(SetRows(st.g, stay, lrow + Row(1)), {leaf, gadget}),
           left |-> lft,
           gates |-> st.gates \o HpgBefore(rtargets)
                       \o <<Gate("ParityPhase", phase2, st.targets)>> \o HpgAfter(rtargets),
           advanced |-> TRUE, raised |-> NoError,
           nright |-> Len(st.gadget_right), nleft |-> Len(st.gadget_left)]

\* lines 453-458: the right side is brought to len(left) vertices;
\* st = [g, right] after the buffers, and so is the result
HpgCut(st, lft, gadget, lrow) ==
  IF Len(st.right) = Len(lft)
    THEN [g |-> SetRows(st.g, st.right, lrow + Row(2)), right |-> st.right]
    ELSE LET cut == cut_edges(st.g, Append(lft, gadget), st.right)
         IN [g |-> cut.g, right |-> cut.left_verts]

QubitsOf(g0, vs) == [k \in 1..Len(vs) |-> g0.qs[vs[k]]]

\* lines 465-469, left2 the sorted left of line 463: [g, right, left, qv]
HpgPlace(g0, rgt, left2, choice) ==
  LET target == column_optimal_swap(bi_adj(g0, rgt, left2), choice)
      g3 == SetQubits(g0, rgt, target, QubitsOf(g0, left2), 1)
  IN [g |-> g3, right |-> SortByQubit(g3, rgt), left |-> left2, qv |-> QubitsOf(g0, left2)]

\* lines 474-487; s = [g, right, left, qv], the result is the state of
\* HpgMigrate
HpgReduce(s, gadget, operations) ==
  LET cols == Append(s.right, gadget)
      g4 == connectivity_from_biadj(s.g, RowAdds(bi_adj(s.g, cols, s.left), operations),
                                    cols, s.left)
      gadget_left == SelectSeq(s.left, LAMBDA v : connected(g4, gadget, v))
  IN [g |-> g4,
      gates |-> [k \in 1..Len(operations) |->
                   Gate("CNOT", 0, <<s.qv[operations[k][2]], s.qv[operations[k][1]]>>)],
      gadget_right |-> SelectSeq(s.right, LAMBDA w : connected(g4, gadget, w)),
      gadget_left |-> gadget_left,
      targets |-> QubitsOf(g4, gadget_left),
      raised |-> NoError]

\* lines 471-529; s = [g, right, left, qv]
HpgGauss(s, gadget, leaf, phase, lrow) ==
  IF rank(bi_adj(s.g, s.right, s.left)) # Len(s.left)
    THEN [g |-> s.g, left |-> s.left, gates |-> <<>>, advanced |-> FALSE,
          raised |-> Error("Exception", "Rank in phase gadget reduction too low."),
          nright |-> 0, nleft |-> 0]
    ELSE The({HpgEmit(HpgMigrate(red, Len(red.gadget_right), s.left, lrow),
                      s.left, gadget, leaf, phase, lrow) :
              red \in {HpgReduce(s, gadget, gauss(bi_adj(s.g, s.right, s.left)).ops)}})

\* lines 453-529, the gadget found; st = [g, right] after the buffers
HpgExtract(st, lft, gadget, leaf, lrow, choice) ==
  LET phase == IF st.g.ph[gadget] # 0 THEN -1 * st.g.ph[leaf] ELSE st.g.ph[leaf]
  IN The({The({HpgGauss(s2, gadget, leaf, phase, lrow) :
                 s2 \in {HpgPlace(s1.g, s1.right, SortByQubit(s1.g, lft), choice)}}) :
            s1 \in {HpgCut(st, lft, gadget, lrow)}})

\* handle_phase_gadget(g, left, neigh, special_nodes): the result is
\* [g, left, gates, advanced, raised]; advanced tells that the row returned
\* is leftrow+1
handle_phase_gadget(g0, lft, neigh, sn, choice) ==
  LET q == Len(lft)
      lrow == g0.rs[lft[1]]
      gadgets == Ascending(neigh \cap DOMAIN sn)
      all_verts == neigh \cup Range(lft) \cup Range(sn)
      options == SelectSeq(gadgets, LAMBDA n : Range(neighbours(g0, n)) \subseteq all_verts)
      right1 == MoveToEnd(Ascending(neigh), options)
      rb == reduce_bottom_rows(bi_adj(g0, right1, lft \o options), q)
      fail(e) == [g |-> g0, left |-> lft, gates |-> <<>>, advanced |-> FALSE, raised |-> e,
                  nright |-> 0, nleft |-> 0]
  IN IF gadgets = <<>>
       THEN fail(Error("ValueError", "No phase gadget connected to this row"))
     ELSE IF rb.kind = "StopIteration" THEN fail(Error("StopIteration", ""))
     ELSE IF rb.kind = "ValueError"
       THEN fail(Error("ValueError", "Did not find any completely reducable row"))
     ELSE LET gadget == options[rb.r - q]
              leaf == sn[gadget]
              g1 == set_row(set_row(g0, gadget, lrow + Row(1)), leaf, lrow + Row(1))
              st == HpgBuffers([g |-> g1, right |-> Remove(right1, gadget)], 1)
          IN The({HpgExtract(s, lft, gadget, leaf, lrow, choice) : s \in {st}})

\* the frontier has no row that a reduction could isolate, lines 234-238
Stalled(g0, lft, rgt) == ~HasUnitRow(gauss(bi_adj(g0, Ascending(rgt), lft)).m)

\* lines 245-249, the fusion after an identity removal that removed something
IdSimpFuse(g0, lft, lr) ==
  FuseAll(g0, match_spider_parallel(g0, FusableEdges(g0, lr)), lft)

\* lines 239-250: the one retry with identity removal and spider fusion
IdSimp ==
  /\ pc = "stall"
  /\ Stalled(g, left, right)
  /\ ~tried_id_simp
  /\ id_simp([g |-> g, i |-> 0], leftrow).i > 0
  /\ g' = IdSimpFuse(id_simp([g |-> g, i |-> 0], leftrow).g, left, leftrow)
  /\ tried_id_simp' = TRUE
  /\ pc' = "absorb"
  /\ UNCHANGED <<c, leftrow, maxq, special_nodes, left, right, good_verts, good_neighs,
                 boundary_verts, allow_ancillae, stopcount, raised, ps, mo, rbr, me>>

\* an except clause that lets every exception of the resolver through
ExceptValueErrorPassAll(e, ancillae) == e

\* lines 253-256: a ValueError of the resolver is passed on without
\* ancillae and replaced by the bare Exception of line 256 with them, before
\* the call of find_ancilla_qubits on line 257, which is never reached
ExceptValueError(e, ancillae) ==
  IF e.kind = "ValueError" /\ ancillae THEN Error("Exception", "") ELSE e

\* lines 251-267: what the loop does with the outcome res of the resolver
PhaseGadgetOutcome(res) ==
  /\ g' = (IF res.raised = NoError /\ res.advanced
             THEN SetRows(res.g, boundary_verts, Row(leftrow + 1)) ELSE res.g)
  /\ left' = res.left
  /\ IF res.raised = NoError
       THEN /\ c' = c \o res.gates
            /\ tried_id_simp' = FALSE
            /\ leftrow' = IF res.advanced THEN leftrow + 1 ELSE leftrow
            /\ raised' = NoError
            /\ pc' = "absorb"
       ELSE /\ raised' = ExceptValueError(res.raised, allow_ancillae)
            /\ tried_id_simp' = TRUE
            /\ pc' = "raised"
            /\ UNCHANGED <<c, leftrow>>

\* lines 239-267 when the identity removal was tried before or finds
\* nothing: the phase gadget resolver
PhaseGadget ==
  /\ pc = "stall"
  /\ Stalled(g, left, right)
  /\ tried_id_simp \/ id_simp([g |-> g, i |-> 0], leftrow).i = 0
  /\ \E choice \in RowOrders(Len(left)) :
       \E res \in {handle_phase_gadget(g, left, right, special_nodes, choice)} :
         PhaseGadgetOutcome(res)
  /\ UNCHANGED <<maxq, special_nodes, right, good_verts, good_neighs, boundary_verts,
                 allow_ancillae, stopcount, ps, mo, rbr, me>>

(***************************************************************************)
(* The reduction by CNOTs, lines 268-305.                                  *)
(***************************************************************************)
\* the sum of the rows S of m
XorRows(m, S) == [j \in 1..MatCols(m) |-> Cardinality({i \in S : m[i][j] = 1}) % 2]

\* the lists of the elements of S, each once
OrdersOf(S) ==
  {t \in [1..Cardinality(S) -> S] : \A a, b \in 1..Cardinality(S) : t[a] = t[b] => a = b}

\* greedy_reduction(m) of pyzx.linalg, which extract.py does not define: the
\* lists of pairs <<control, target>> it may return, each a fewest rows of m
\* added one to the next so that the last has a single nonzero entry
greedy_reduction(m) ==
  LET good == {S \in SUBSET (1..Len(m)) : Sum(XorRows(m, S)) = 1}
      least == {S \in good : \A S2 \in good : Cardinality(S) <= Cardinality(S2)}
  IN UNION {{[k \in 1..(Len(t) - 1) |-> <<t[k], t[k + 1]>>] : t \in OrdersOf(S)} : S \in least}

\* a CNOT application that puts no vertex before the output of a control
GreedyBufferNone(st, v) == st

\* lines 281-294: a control next to an output gets a vertex before the
\* first such output; st = [g, c, m, right]
GreedyBuffer(st, v) ==
  LET outs == SelectSeq(neighbours(st.g, v), LAMBDA w : w \in st.g.outputs)
      o == outs[1]
      w == st.g.next
      g1 == add_vertex(st.g, "Z", st.g.qs[o], st.g.rs[o] - Row(1))
      et == edge_type(g1, v, o)
      g2 == add_edge(add_edge(remove_edge(g1, v, o), v, w, "HADAMARD"), w, o, toggle_edge(et))
  IN IF outs = <<>> THEN st
     ELSE [st EXCEPT !.g = g2, !.right[IndexOf(st.right, o)] = w]

\* lines 295-298: the edges of the target follow the row addition
GreedyEdges(g0, m, rgt, control, target, lft_t) ==
  LET on == {k \in 1..MatCols(m) : m[control][k] = 1}
      del == {{lft_t, rgt[k]} : k \in {k \in on : m[target][k] = 1}}
      add == {{lft_t, rgt[k]} : k \in {k \in on : m[target][k] = 0}}
  IN [g0 EXCEPT !.et = [e \in add |-> "HADAMARD"] @@ [e \in (DOMAIN g0.et) \ del |-> g0.et[e]]]

\* the body of the loop of line 278; control and target number rows from 1
GreedyStep(st, lft, control, target) ==
  LET s1 == [st EXCEPT !.c = Append(@, Gate("CNOT", 0, <<st.g.qs[lft[target]],
                                                         st.g.qs[lft[control]]>>))]
      s2 == GreedyBuffer(s1, lft[control])
  IN [s2 EXCEPT !.g = GreedyEdges(s2.g, s2.m, s2.right, control, target, lft[target]),
                !.m = row_add(s2.m, control, target)]

RECURSIVE GreedySteps(_, _, _)
GreedySteps(st, lft, sequence) ==
  IF sequence = <<>> THEN st
  ELSE GreedySteps(GreedyStep(st, lft, Head(sequence)[1], Head(sequence)[2]),
                   lft, Tail(sequence))

\* lines 300-304; st = [good_verts, good_neighs]
RECURSIVE GreedyGood(_, _, _, _, _)
GreedyGood(st, g0, lft, k, lr) ==
  IF k > Len(lft) THEN st
  ELSE LET d == SelectSeq(neighbours(g0, lft[k]), LAMBDA w : g0.rs[w] > Row(lr))
       IN GreedyGood(IF Len(d) = 1 /\ g0.ty[d[1]] # "BOUNDARY"
                       THEN [good_verts |-> Append(st.good_verts, lft[k]),
                             good_neighs |-> Append(st.good_neighs, d[1])]
                       ELSE st,
                     g0, lft, k + 1, lr)

\* lines 268-305 with a reduction found: its CNOTs are emitted and the
\* diagram follows; the loop goes on to the advance if a vertex can advance
Greedy ==
  /\ pc = "stall"
  /\ ~Stalled(g, left, right)
  /\ LET m == bi_adj(g, Ascending(right), left)
     IN \E sequence \in greedy_reduction(m) :
          LET st == GreedySteps([g |-> g, c |-> c, m |-> m, right |-> Ascending(right)],
                                left, sequence)
              good == GreedyGood([good_verts |-> good_verts, good_neighs |-> good_neighs],
                                 st.g, left, 1, leftrow)
          IN /\ g' = st.g
             /\ c' = st.c
             /\ right' = Range(st.right)
             /\ good_verts' = good.good_verts
             /\ good_neighs' = good.good_neighs
             /\ pc' = IF good.good_verts = <<>> THEN "absorb" ELSE "advance"
  /\ UNCHANGED <<leftrow, maxq, special_nodes, tried_id_simp, left, boundary_verts,
                 allow_ancillae, stopcount, raised, ps, mo, rbr, me>>

(***************************************************************************)
(* try_greedy_cut (extract.py 347-408).                                    *)
(***************************************************************************)
\* lines 351-364; st = [g, right, candidates], both sets
RECURSIVE CutBuffers(_, _)
CutBuffers(st, ws) ==
  IF ws = <<>> THEN st
  ELSE IF Head(ws) \notin st.g.outputs THEN CutBuffers(st, Tail(ws))
  ELSE LET w == Head(ws)
           b == BufferOutput(st.g, w)
       IN CutBuffers([g |-> b.g,
                      right |-> (st.right \ {w}) \cup {b.w2},
                      candidates |-> IF w \in st.candidates
                                       THEN (st.candidates \ {w}) \cup {b.w2}
                                       ELSE st.candidates],
                     Tail(ws))

\* lines 384-386; st = [g, new_right]
RECURSIVE CutUnspider(_, _, _)
CutUnspider(st, good_nodes, lrow) ==
  IF good_nodes = <<>> THEN st
  ELSE LET u == unspider_by_row(set_row(st.g, Head(good_nodes), lrow + Row(2)), Head(good_nodes))
       IN CutUnspider([g |-> u.g, new_right |-> Append(st.new_right, u.w)],
                      Tail(good_nodes), lrow)

\* m.to_cnots(optimize=True) of pyzx.linalg, which extract.py does not
\* define, with lines 397-399: the CNOTs of the row additions that reduce m
to_cnots(m, qs) ==
  LET ops == gauss(m).ops
  IN [k \in 1..Len(ops) |-> Gate("CNOT", 0, <<qs[ops[k][2]], qs[ops[k][1]]>>)]

\* lines 400-406: left[i] is joined to new_right[i] and to no other
CutIdentity(g0, lft, new_right) ==
  LET q == Len(lft)
      del == {{lft[p[1]], new_right[p[2]]} : p \in {p \in (1..q) \X (1..q) : p[1] # p[2]}}
      add == {e \in {{lft[i], new_right[i]} : i \in 1..q} : e \notin DOMAIN g0.et}
  IN [g0 EXCEPT !.et = [e \in add |-> "HADAMARD"] @@ [e \in (DOMAIN g0.et) \ del |-> g0.et[e]]]

\* the vertices whose removal lowers the rank, lines 369-377
GoodNodes(g0, lft, rgt, candidates) ==
  LET m == gauss(bi_adj(g0, rgt, lft)).m
      rows == SelectSeq([i \in 1..Len(m) |-> i], LAMBDA i : Sum(m[i]) = 1)
      ws == [k \in 1..Len(rows) |-> rgt[FirstOne(m[rows[k]])]]
  IN SelectSeq(ws, LAMBDA w : w \in candidates)

\* lines 380-386; s1 = [g, right, candidates] after the buffers, the
\* result is [g, new_right]
CutRight(s1, lft, good_nodes) ==
  LET cut == cut_edges(s1.g, lft,
                       SelectSeq(Ascending(s1.right), LAMBDA w : ~InList(good_nodes, w)))
  IN CutUnspider([g |-> cut.g, new_right |-> cut.left_verts], good_nodes, cut.g.rs[lft[1]])

\* lines 395-408; s = [g, right, left, qv] as HpgPlace leaves it; line 402
\* reads new_right past its end when the cut left fewer than len(left)
\* vertices
CutFinish(s) ==
  IF Len(s.right) < Len(s.left)
    THEN [g |-> s.g, gates |-> <<>>, success |-> FALSE,
          raised |-> Error("IndexError", "list index out of range")]
    ELSE [g |-> CutIdentity(s.g, s.left, s.right),
          gates |-> to_cnots(bi_adj(s.g, s.right, s.left), s.qv),
          success |-> TRUE, raised |-> NoError]

\* lines 366-408; s1 = [g, right, candidates] after the buffers
CutGood(s1, lft, good_nodes, choice) ==
  IF good_nodes = <<>>
    THEN [g |-> s1.g, gates |-> <<>>, success |-> FALSE, raised |-> NoError]
    ELSE The({The({CutFinish(s3) :
                     s3 \in {HpgPlace(s2.g, s2.new_right, SortByQubit(s2.g, lft), choice)}}) :
                s2 \in {CutRight(s1, lft, good_nodes)}})

\* try_greedy_cut(g, left, right, candidates): [g, gates, success, raised]
try_greedy_cut(g0, lft, rgt, cands, choice) ==
  The({The({CutGood(s1, lft, good_nodes, choice) :
              good_nodes \in {GoodNodes(s1.g, lft, Ascending(s1.right), s1.candidates)}}) :
         s1 \in {CutBuffers([g |-> g0, right |-> rgt, candidates |-> cands], Ascending(rgt))}})

\* lines 272-275: what the loop does with the outcome res of the cut
GreedyCutOutcome(res) ==
  /\ g' = res.g
  /\ c' = c \o res.gates
  /\ raised' = IF res.raised # NoError THEN res.raised
               ELSE IF res.success THEN NoError
               ELSE Error("Exception", "We should never get here")
  /\ pc' = IF res.success THEN "absorb" ELSE "raised"

\* lines 268-275 with no reduction reported: greedy_reduction is a heuristic
\* outside extract.py and is not held to find the reduction that exists
GreedyCut ==
  /\ pc = "stall"
  /\ ~Stalled(g, left, right)
  /\ \E choice \in RowOrders(Len(left)) :
       \E res \in {try_greedy_cut(g, left, right, right \ DOMAIN special_nodes, choice)} :
         GreedyCutOutcome(res)
  /\ UNCHANGED <<leftrow, maxq, special_nodes, tried_id_simp, left, right, good_verts,
                 good_neighs, boundary_verts, allow_ancillae, stopcount, ps, mo, rbr, me>>

Next ==
  \/ Start \/ Absorb \/ LocalGates \/ Ladder
  \/ IdSimp \/ PhaseGadget \/ Greedy \/ GreedyCut
  \/ Advance \/ Finalize

Spec == InitExtract /\ [][Next]_vars

(***************************************************************************)
(* modified_extract (extract.py 660-816): the reduction of the CZ gates    *)
(* between the frontier vertices, lines 705-722, on any matrix cz_mat that *)
(* lines 696-702 can build: symmetric with a zero diagonal.                *)
(***************************************************************************)
CzMatrices(n) ==
  {[x \in 0..(n - 1) |-> [y \in 0..(n - 1) |->
      IF <<x, y>> \in E \/ <<y, x>> \in E THEN 1 ELSE 0]] :
   E \in SUBSET {p \in (0..(n - 1)) \X (0..(n - 1)) : p[1] < p[2]}}

\* a clearing that forgets the entries of row j
CzClearFirstRow(m, i, j, qbs) ==
  [x \in DOMAIN m |-> [y \in DOMAIN m |->
     IF (x = i /\ InList(qbs, y)) \/ (y = i /\ InList(qbs, x)) THEN 0 ELSE m[x][y]]]

\* lines 712-715 for every qb of the common qubits
CzClear(m, i, j, qbs) ==
  [x \in DOMAIN m |-> [y \in DOMAIN m |->
     IF (x \in {i, j} /\ InList(qbs, y)) \/ (y \in {i, j} /\ InList(qbs, x))
       THEN 0 ELSE m[x][y]]]

\* lines 708-716: the gates of one round
CzBurst(i, j, qbs) ==
  <<Gate("CNOT", 0, <<i, j>>)>>
    \o [k \in 1..Len(qbs) |-> Gate("CZ", 0, <<j, qbs[k]>>)]
    \o <<Gate("CNOT", 0, <<i, j>>)>>

\* lines 719-722: the CZ gates that are left, row by row
CzRest(m, N) ==
  LET pairs == {p \in (0..(N - 1)) \X (0..(N - 1)) : p[1] < p[2] /\ m[p[1]][p[2]] = 1}
      before(p, r) == p[1] < r[1] \/ (p[1] = r[1] /\ p[2] < r[2])
  IN [k \in 1..Cardinality(pairs) |->
        Gate("CZ", 0, CHOOSE p \in pairs : Cardinality({r \in pairs : before(r, p)}) = k - 1)]

CzInit ==
  \E n \in 1..MaxCz : \E m \in CzMatrices(n) : \E opt \in BOOLEAN :
    me = [pc |-> "cz", cz_mat |-> m, N |-> n, optimize_czs |-> opt, c |-> <<>>,
          overlap_data |-> <<<<>>, <<>>>>]

\* lines 705-706
CzOverlap ==
  /\ me.pc = "cz"
  /\ me' = IF me.optimize_czs
             THEN [me EXCEPT !.pc = "while",
                             !.overlap_data = max_overlap(me.cz_mat, me.N)]
             ELSE [me EXCEPT !.pc = "rest"]
  /\ UNCHANGED <<ps, mo, rbr, xvars>>

\* lines 707-717, one round of the while loop
CzRound ==
  /\ me.pc = "while"
  /\ Len(me.overlap_data[2]) > 2
  /\ \E i \in {me.overlap_data[1][1]} : \E j \in {me.overlap_data[1][2]} :
       \E m \in {CzClear(me.cz_mat, i, j, me.overlap_data[2])} :
         me' = [me EXCEPT !.c = @ \o CzBurst(i, j, me.overlap_data[2]),
                          !.cz_mat = m,
                          !.overlap_data = max_overlap(m, me.N)]
  /\ UNCHANGED <<ps, mo, rbr, xvars>>

\* line 707, the loop is left
CzLeave ==
  /\ me.pc = "while"
  /\ Len(me.overlap_data[2]) <= 2
  /\ me' = [me EXCEPT !.pc = "rest"]
  /\ UNCHANGED <<ps, mo, rbr, xvars>>

\* lines 719-722
CzEmit ==
  /\ me.pc = "rest"
  /\ me' = [me EXCEPT !.pc = "done", !.c = @ \o CzRest(me.cz_mat, me.N)]
  /\ UNCHANGED <<ps, mo, rbr, xvars>>

CzNext == CzOverlap \/ CzRound \/ CzLeave \/ CzEmit

InitCz == CzInit /\ ps = Idle /\ mo = Idle /\ rbr = Idle /\ ExtractIdle

SpecCz == InitCz /\ [][CzNext]_vars

\* the loop is sequential code that nothing blocks, so a step that can be
\* taken is taken
SpecCzFair == SpecCz /\ WF_vars(CzNext)

(***************************************************************************)
(* The main loop of modified_extract (extract.py 660-816), in the state    *)
(* me = [pc, g, optimize_czs, c, gadgets, frontier, qubit_map,             *)
(* neighbours, raised].  g.qubit_count() is the number of inputs.  The     *)
(* rule pivot of pyzx.rules is not part of extract.py: a round that calls  *)
(* it (line 790, a gadget anchor among the neighbours) ends in the         *)
(* position "pivot", which the model does not follow further.              *)
(***************************************************************************)
\* lines 665-683, on the wires and the layered diagrams with and without a
\* phase gadget: the gadget map, the frontier and the qubits of its vertices
MeInit ==
  \E nq \in 1..MaxQubits : \E nm \in 0..MaxMids : \E opt \in BOOLEAN :
    \E d \in (IF nm = 0 THEN Wires(nq) ELSE Layered(nq, nm) \cup Gadgets(nq, nm)) :
      \E g0 \in {Diagram(d)} :
        LET hang == SelectSeq(Ascending(g0.outputs),
                              LAMBDA o : neighbours(g0, o)[1] \notin g0.inputs)
            first(o) == neighbours(g0, o)[1]
        IN me = [pc |-> "top", g |-> g0, optimize_czs |-> opt, c |-> <<>>,
                 gadgets |-> SpecialNodes(g0),
                 frontier |-> [k \in 1..Len(hang) |-> first(hang[k])],
                 qubit_map |-> [v \in {first(o) : o \in Range(hang)} |->
                                  g0.qs[MaxOf({o \in Range(hang) : first(o) = v})]],
                 neighbours |-> <<>>, raised |-> NoError]

\* lines 687-696 for the frontier vertices from the k-th on
RECURSIVE MePreprocess(_, _)
MePreprocess(st, k) ==
  IF k > Len(st.frontier) THEN st
  ELSE LET v == st.frontier[k]
           q == st.qubit_map[v]
           b == SelectSeq(neighbours(st.g, v), LAMBDA w : w \in st.g.outputs)[1]
           had == edge_type(st.g, v, b) = "HADAMARD"
           c1 == IF had THEN Append(st.c, Gate("HAD", 0, <<q>>)) ELSE st.c
           g1 == IF had THEN set_edge_type(st.g, v, b, "SIMPLE") ELSE st.g
           ph == st.g.ph[v]
       IN MePreprocess(
            [st EXCEPT !.c = IF ph # 0 THEN Append(c1, Gate("ZPhase", ph, <<q>>)) ELSE c1,
                       !.g = IF ph # 0 THEN set_phase(g1, v, 0) ELSE g1],
            k + 1)

\* lines 707-717; st = [cz_mat, N, c, overlap_data]
RECURSIVE MeCzLoop(_)
MeCzLoop(st) ==
  IF Len(st.overlap_data[2]) <= 2 THEN st
  ELSE LET i == st.overlap_data[1][1]
           j == st.overlap_data[1][2]
           m == CzClear(st.cz_mat, i, j, st.overlap_data[2])
       IN MeCzLoop([st EXCEPT !.c = @ \o CzBurst(i, j, st.overlap_data[2]),
                              !.cz_mat = m,
                              !.overlap_data = max_overlap(m, st.N)])

\* lines 726-744 for the vertices of frontier.copy() from the k-th on;
\* neighbours is the set under construction
RECURSIVE MeInputs(_, _, _)
MeInputs(st, vs, k) ==
  IF k > Len(vs) THEN st
  ELSE LET v == vs[k]
           d == SelectSeq(neighbours(st.g, v), LAMBDA w : w \notin st.g.outputs)
           ins == SelectSeq(d, LAMBDA w : w \in st.g.inputs)
       IN IF ins = <<>>
            THEN MeInputs([st EXCEPT !.neighbours = @ \cup Range(d)], vs, k + 1)
          ELSE IF Len(d) = 1
            THEN MeInputs([st EXCEPT !.frontier = Remove(@, v)], vs, k + 1)
          ELSE LET b == ins[1]
                   w == st.g.next
                   et == edge_type(st.g, v, b)
                   g1 == add_vertex(st.g, "Z", st.g.qs[b], st.g.rs[b] + Row(1))
                   g2 == add_edge(add_edge(remove_edge(g1, v, b), v, w, "SIMPLE"),
                                  w, b, toggle_edge(et))
               IN MeInputs([st EXCEPT !.g = g2,
                                      !.neighbours = @ \cup (Range(d) \ {b}) \cup {w}],
                           vs, k + 1)

\* lines 686-745: the first half of an iteration, up to the test that
\* leaves the loop; cz is the matrix of lines 697-703
MeBody(st) ==
  LET s1 == MePreprocess(st, 1)
      N == Cardinality(st.g.inputs)
      on == {p \in Range(st.frontier) \X Range(st.frontier) : connected(s1.g, p[1], p[2])}
      cz == [x \in 0..(N - 1) |-> [y \in 0..(N - 1) |->
               IF \E p \in on : st.qubit_map[p[1]] = x /\ st.qubit_map[p[2]] = y
                 THEN 1 ELSE 0]]
      cut == {e \in DOMAIN s1.g.et : e \subseteq Range(st.frontier)}
      g1 == [s1.g EXCEPT !.et = [e \in (DOMAIN s1.g.et) \ cut |-> s1.g.et[e]]]
      lp == IF st.optimize_czs
              THEN MeCzLoop([cz_mat |-> cz, N |-> N, c |-> s1.c,
                             overlap_data |-> max_overlap(cz, N)])
              ELSE [cz_mat |-> cz, c |-> s1.c]
      s3 == MeInputs([s1 EXCEPT !.g = g1, !.c = lp.c \o CzRest(lp.cz_mat, N),
                                !.neighbours = {}],
                     st.frontier, 1)
  IN [s3 EXCEPT !.neighbours = Ascending(@),
                !.pc = IF s3.frontier = <<>> THEN "final" ELSE "search"]

\* lines 755-778: neighs is the list of neighbours with the maximal
\* vertices first
MeExtract(st, neighs) ==
  LET m == bi_adj(st.g, neighs, st.frontier)
      cnots == to_cnots(m, [i \in 1..Len(st.frontier) |-> st.qubit_map[st.frontier[i]]])
      m1 == gauss(m).m
      good == SelectSeq([i \in 1..Len(m1) |-> i], LAMBDA i : Sum(m1[i]) = 1)
      RECURSIVE Pull(_, _)
      Pull(s, k) ==
        IF k > Len(good) THEN s
        ELSE LET v == st.frontier[good[k]]
                 w == neighs[FirstOne(m1[good[k]])]
                 b == SelectSeq(neighbours(s.g, v), LAMBDA o : o \in s.g.outputs)[1]
             IN Pull([s EXCEPT !.c = Append(@, Gate("HAD", 0, <<s.qubit_map[v]>>)),
                               !.qubit_map = (w :> s.qubit_map[v]) @@ @,
                               !.g = add_edge(remove_vertices(s.g, {v}), w, b, "SIMPLE"),
                               !.frontier = Append(Remove(@, v), w)],
                     k + 1)
  IN Pull([st EXCEPT !.g = connectivity_from_biadj(st.g, m1, neighs, st.frontier),
                     !.c = @ \o cnots, !.neighbours = neighs, !.pc = "top"], 1)

\* lines 747-795: the second half of an iteration
MeSearch(st) ==
  LET m == gauss(bi_adj(st.g, st.neighbours, st.frontier)).m
      units == SelectSeq([i \in 1..Len(m) |-> i], LAMBDA i : Sum(m[i]) = 1)
      max_vertices == [k \in 1..Len(units) |-> st.neighbours[FirstOne(m[units[k]])]]
  IN IF max_vertices # <<>>
       THEN MeExtract(st, max_vertices \o RemoveAll(st.neighbours, max_vertices))
     ELSE IF \E w \in Range(st.neighbours) : w \in DOMAIN st.gadgets
       THEN [st EXCEPT !.pc = "pivot"]
     ELSE [st EXCEPT !.pc = "top"]

\* lines 797-816
MeFinish(st) ==
  LET g1 == id_simp([g |-> st.g, i |-> 0], -1).g
      RECURSIVE Last(_, _)
      Last(s, os) ==
        IF os = <<>> \/ s.raised # NoError THEN s
        ELSE LET v == Head(os)
                 q == s.g.qs[v]
                 ns == neighbours(s.g, v)
             IN IF ns = <<>>
                  THEN [s EXCEPT !.raised = Error("IndexError", "list index out of range")]
                ELSE IF ns[1] \notin s.g.inputs
                  THEN [s EXCEPT !.raised =
                          Error("TypeError", "Algorithm failed: Not fully reducable")]
                ELSE LET had == edge_type(s.g, v, ns[1]) = "HADAMARD"
                     IN Last([s EXCEPT
                                !.c = IF had THEN Append(@, Gate("HAD", 0, <<q>>)) ELSE @,
                                !.g = IF had THEN set_edge_type(@, v, ns[1], "SIMPLE") ELSE @,
                                !.leftover_swaps = @ \/ s.g.qs[ns[1]] # q,
                                !.swap_map = (q :> s.g.qs[ns[1]]) @@ @],
                             Tail(os))
      s1 == Last([g |-> g1, c |-> st.c, raised |-> NoError, swap_map |-> <<>>,
                  leftover_swaps |-> FALSE], Ascending(g1.outputs))
      res == permutation_as_swaps(s1.swap_map)
      c2 == IF s1.leftover_swaps THEN s1.c \o SwapGates(res.swaps) ELSE s1.c
  IN IF s1.raised # NoError
       THEN [st EXCEPT !.g = s1.g, !.c = s1.c, !.raised = s1.raised, !.pc = "raised"]
     ELSE IF s1.leftover_swaps /\ res.raised # ""
       THEN [st EXCEPT !.g = s1.g, !.c = s1.c, !.pc = "raised",
                       !.raised = Error(res.raised, "permutation_as_swaps")]
     ELSE [st EXCEPT !.g = s1.g, !.pc = "returned",
                     !.c = [k \in 1..Len(c2) |-> c2[Len(c2) + 1 - k]]]

MeTop ==
  /\ me.pc = "top"
  /\ \E res \in {MeBody(me)} : me' = res
  /\ UNCHANGED <<ps, mo, rbr, xvars>>

MeFind ==
  /\ me.pc = "search"
  /\ \E res \in {MeSearch(me)} : me' = res
  /\ UNCHANGED <<ps, mo, rbr, xvars>>

MeReturn ==
  /\ me.pc = "final"
  /\ \E res \in {MeFinish(me)} : me' = res
  /\ UNCHANGED <<ps, mo, rbr, xvars>>

MeNext == MeTop \/ MeFind \/ MeReturn

InitModified == MeInit /\ ps = Idle /\ mo = Idle /\ rbr = Idle /\ ExtractIdle

SpecModified == InitModified /\ [][MeNext]_vars

\* the loop is sequential code that nothing blocks, so a step that can be
\* taken is taken
SpecModifiedFair == SpecModified /\ WF_vars(MeNext)

(***************************************************************************)
(* Properties of permutation_as_swaps.                                     *)
(***************************************************************************)
\* C2: the number of swaps returned for a permutation of {0..n-1} is n minus
\* its number of cycles, fixed points counted as cycles of length 1
C2_SwapCount ==
  ps.pc \in {"apply", "done"} => Len(ps.swaps) = ps.n - NumCycles(ps.perm)

\* a 3-cycle beside a fixed point has been resolved into two swaps
C2_Witness ==
  /\ ps.pc = "done"
  /\ ps.n = 4
  /\ NumCycles(ps.perm) = 2
  /\ \E x \in 0..3 : ps.perm[x] = x
  /\ Len(ps.swaps) = 2

\* C3 as stated: the swaps, applied in the order returned as position
\* exchanges to the identity list, leave perm[x] at every position x
C3_InOrderGivesPerm ==
  ps.pc = "done" => \A x \in 0..(ps.n - 1) : ps.arr[x] = ps.perm[x]

\* C3 amended: the swaps, applied in the order returned as position exchanges
\* to the identity list, move every element x to position perm[x] (the list
\* obtained is that of the inverse permutation)
C3_InOrderMovesToPerm ==
  ps.pc = "done" => \A x \in 0..(ps.n - 1) : ps.arr[ps.perm[x]] = x

\* all swaps of a permutation that is not its own inverse have been applied
C3_Witness ==
  /\ ps.pc = "done"
  /\ \E x \in 0..(ps.n - 1) : ps.perm[ps.perm[x]] # x
  /\ \A x \in 0..(ps.n - 1) : ps.arr[ps.perm[x]] = x

(***************************************************************************)
(* Properties of max_overlap.                                              *)
(***************************************************************************)
\* the common neighbours of rows i and j
Common(data, N, i, j) == {k \in 0..(N - 1) : data[i][k] = 1 /\ data[j][k] = 1}

RowWeight(data, N, i) == Cardinality({k \in 0..(N - 1) : data[i][k] = 1})

\* the result names rows i and j, the heavier first, with their common neighbours
SelectsPair(i, j) ==
  /\ mo.result[1] \in {<<i, j>>, <<j, i>>}
  /\ RowWeight(mo.data, mo.N, mo.result[1][1]) >= RowWeight(mo.data, mo.N, mo.result[1][2])
  /\ mo.result[2] = Ascending(Common(mo.data, mo.N, i, j))

RowPairs(N) == {p \in (0..(N - 1)) \X (0..(N - 1)) : p[1] < p[2]}

\* C7 as stated: rows i and j share k > 2 neighbours and no other pair shares
\* more than k; then the pair {i, j} is returned, heavier row first, with
\* exactly its common neighbours
C7_MaxOverlapSelected ==
  mo.pc = "done" =>
    \A p \in RowPairs(mo.N) :
      LET k == Cardinality(Common(mo.data, mo.N, p[1], p[2]))
      IN (/\ k > 2
          /\ \A r \in RowPairs(mo.N) \ {p} :
               Cardinality(Common(mo.data, mo.N, r[1], r[2])) <= k)
         => SelectsPair(p[1], p[2])

\* C7 amended: rows i and j share k > 2 neighbours and every other pair
\* shares fewer than k; then the pair {i, j} is returned, heavier row first,
\* with exactly its common neighbours
C7_UniqueMaxOverlapSelected ==
  mo.pc = "done" =>
    \A p \in RowPairs(mo.N) :
      LET k == Cardinality(Common(mo.data, mo.N, p[1], p[2]))
      IN (/\ k > 2
          /\ \A r \in RowPairs(mo.N) \ {p} :
               Cardinality(Common(mo.data, mo.N, r[1], r[2])) < k)
         => SelectsPair(p[1], p[2])

\* a call has returned on a matrix whose unique best pair has rows of
\* different weight, the lighter one scanned first
C7_Witness ==
  /\ mo.pc = "done"
  /\ \E p \in RowPairs(mo.N) :
       /\ Cardinality(Common(mo.data, mo.N, p[1], p[2])) > 2
       /\ \A r \in RowPairs(mo.N) \ {p} :
            Cardinality(Common(mo.data, mo.N, r[1], r[2]))
              < Cardinality(Common(mo.data, mo.N, p[1], p[2]))
       /\ RowWeight(mo.data, mo.N, p[1]) < RowWeight(mo.data, mo.N, p[2])
       /\ mo.result[1] = <<p[2], p[1]>>

(***************************************************************************)
(* Properties of streaming_extract.                                        *)
(***************************************************************************)
\* the frontier vertices in front of the first one that does not have
\* exactly one neighbour on a lower row
Parents(v) == SelectSeq(neighbours(g, v), LAMBDA w : g.rs[w] < Row(leftrow))

BeforeOffender ==
  LET lst == Frontier(g, leftrow)
      k == CHOOSE k \in 1..Len(lst) :
             Len(Parents(lst[k])) # 1 /\ \A j \in 1..(k - 1) : Len(Parents(lst[j])) = 1
  IN SubSeq(lst, 1, k - 1)

\* the Hadamard and phase gates of single-parent frontier vertices
RECURSIVE OwnGates(_)
OwnGates(vs) ==
  IF vs = <<>> THEN <<>>
  ELSE LET v == Head(vs)
       IN (IF edge_type(g, Parents(v)[1], v) = "HADAMARD"
             THEN <<Gate("HAD", 0, <<g.qs[v]>>)>> ELSE <<>>)
          \o (IF g.ty[v] # "BOUNDARY" /\ g.ph[v] # 0
                THEN <<Gate(IF g.ty[v] = "Z" THEN "ZPhase" ELSE "XPhase", g.ph[v], <<g.qs[v]>>)>>
                ELSE <<>>)
          \o OwnGates(Tail(vs))

\* C4 as stated: the iteration that finds a frontier vertex without exactly
\* one neighbour on a lower row has appended no gate when it raises the
\* error, wherever the vertex stands in the frontier.
C4_NoGateBeforeStructuralError ==
  [][(pc = "absorb" /\ pc' = "raised" /\ raised'.msg = "multiple parents") => c' = c]_vars

\* C4 amended: when that iteration raises the error it has appended exactly
\* the Hadamard and phase gates of the frontier vertices in front of the
\* offending one, and none for the offending vertex or those after it.
C4_GatesOfEarlierVerticesOnly ==
  [][(pc = "absorb" /\ pc' = "raised" /\ raised'.msg = "multiple parents")
       => c' = c \o OwnGates(BeforeOffender)]_vars

C4_Witness ==
  /\ pc = "raised"
  /\ raised.msg = "multiple parents"
  /\ c # <<>>

HasGate(name) == \E k \in 1..Len(c) : c[k].name = name

\* C5: with allow_ancillae, once a vertex without forward neighbour was
\* post-selected the extraction does not fail on the qubit map that lacks
\* its qubit: the swap resolver raises no KeyError.
C5_PostSelectedExtractionFinishes ==
  (allow_ancillae /\ HasGate("PostSelect") /\ pc = "raised") => raised.kind # "KeyError"

NoCandidate ==
  /\ pc = "stall"
  /\ Stalled(g, left, right)
  /\ tried_id_simp \/ id_simp([g |-> g, i |-> 0], leftrow).i = 0
  /\ handle_phase_gadget(g, left, right, special_nodes,
                         [k \in 1..Len(left) |-> k]).raised.kind = "ValueError"

\* C8: when the frontier is stalled, the resolver found no candidate and
\* allow_ancillae holds, the loop goes on with the ancillas of
\* find_ancilla_qubits: InitAncilla gates are appended and no error is raised.
C8_AncillasAllocated ==
  [][(NoCandidate /\ allow_ancillae)
       => /\ pc' = "absorb"
          /\ Len(c') > Len(c)
          /\ \A k \in (Len(c) + 1)..Len(c') : c'[k].name = "InitAncilla"
          /\ maxq' = maxq + (Len(c') - Len(c))]_vars

ParityPhases(gates) == Cardinality({k \in 1..Len(gates) : gates[k].name = "ParityPhase"})

\* C9: no step extracts a phase gadget whose anchor has a phase other than
\* 0 and pi: such a gadget is never removed with a ParityPhase gate
\* emitted, neither by the direct extraction nor by handle_phase_gadget.
C9_NonPauliAnchorRefused ==
  [][~(/\ ParityPhases(c') > ParityPhases(c)
       /\ \E n \in DOMAIN special_nodes :
            /\ n \in DOMAIN g.ty
            /\ g.ph[n] \notin {0, 4}
            /\ n \notin DOMAIN g'.ty)]_vars

Targets(n) == Range(neighbours(g, n)) \ {special_nodes[n]}

\* the loop is at the direct gadget extraction and the gadget anchored at n
\* has all its targets in the frontier
OnFrontier(n) ==
  /\ pc = "ladder"
  /\ \E v \in right : g.ty[v] # "BOUNDARY"
  /\ n \in right \cap DOMAIN special_nodes
  /\ Targets(n) \subseteq Range(Frontier(g, leftrow))

\* the step appended the one gate ParityPhase(phase) on the targets of n
\* and removed the anchor n and its leaf
ExtractedAs(n, phase) ==
  /\ Len(c') = Len(c) + 1
  /\ SubSeq(c', 1, Len(c)) = c
  /\ c'[Len(c')].name = "ParityPhase"
  /\ c'[Len(c')].phase = phase
  /\ Len(c'[Len(c')].qubits) = Cardinality(Targets(n))
  /\ Range(c'[Len(c')].qubits) = {g.qs[t] : t \in Targets(n)}
  /\ n \notin DOMAIN g'.ty
  /\ special_nodes[n] \notin DOMAIN g'.ty

\* C11 as stated: a gadget whose targets all lie in the frontier is
\* extracted as exactly one ParityPhase gate on the targets' qubits with
\* the phase of the gadget's leaf, and its anchor and leaf are removed.
C11_OneParityPhaseWithLeafPhase ==
  [][\A n \in DOMAIN special_nodes :
       OnFrontier(n) => ExtractedAs(n, g.ph[special_nodes[n]])]_vars

\* C11 amended: such a gadget is extracted as exactly one ParityPhase gate
\* on the targets' qubits when its anchor has phase 0 or pi; the gate has
\* the leaf's phase for an anchor of phase 0 and the negated leaf's phase
\* for an anchor of phase pi.  For any other anchor phase the step raises
\* an exception, emits no gate and removes nothing.
C11_OneParityPhaseSignedByAnchor ==
  [][\A n \in DOMAIN special_nodes :
       OnFrontier(n) =>
         /\ g.ph[n] = 0 => ExtractedAs(n, g.ph[special_nodes[n]])
         /\ g.ph[n] = 4 => ExtractedAs(n, 0 - g.ph[special_nodes[n]])
         /\ g.ph[n] \notin {0, 4} => (pc' = "raised" /\ c' = c /\ g' = g)]_vars

\* a gadget with an anchor of phase pi over both wires was extracted as the
\* first and only gate
C11_Witness ==
  /\ pc = "absorb"
  /\ c = <<Gate("ParityPhase", -1, <<0, 1>>)>>
  /\ special_nodes = <<>>
  /\ ~tried_id_simp

(***************************************************************************)
(* Properties of reduce_bottom_rows.                                       *)
(***************************************************************************)
\* the GF(2) sum of the rows S of m, the zero row for no rows
SumOfRows(m, S) ==
  [k \in 1..Len(m[1]) |-> Cardinality({r \in S : m[r][k] = 1}) % 2]

\* row r of m is a GF(2) sum of rows among the first q
InSeedSpan(m, q, r) == \E S \in SUBSET (1..q) : SumOfRows(m, S) = m[r]

\* C13: reduce_bottom_rows(m, q) either returns the first row after the q
\* seed rows that is a GF(2) sum of seed rows, or raises the no-candidate
\* ValueError when there is no such row; there is no other outcome, also
\* when the seed rows are linearly dependent or contain a zero row.
C13_ReturnsFirstReducibleRowOrValueError ==
  rbr.pc = "done" =>
    LET cand == {r \in (rbr.qubits + 1)..Len(rbr.m) : InSeedSpan(rbr.m, rbr.qubits, r)}
    IN IF cand = {}
         THEN rbr.kind = "ValueError"
         ELSE rbr.kind = "return" /\ rbr.r \in cand /\ \A r \in cand : rbr.r <= r

\* the loop is about to call the phase gadget resolver, lines 239-251
ResolverRuns ==
  /\ pc = "stall"
  /\ Stalled(g, left, right)
  /\ tried_id_simp \/ id_simp([g |-> g, i |-> 0], leftrow).i = 0

\* C14: when right-targets remain after the migration loop of
\* handle_phase_gadget, the call emits its ParityPhase gate if their number
\* is even and there is more than one left-target, and in every other case
\* fails with the non-unitary-gadget error without a ParityPhase gate.
C14_ParityPhaseOnlyIfEvenAndTwoLeft ==
  ResolverRuns =>
    \A choice \in RowOrders(Len(left)) :
      \A res \in {handle_phase_gadget(g, left, right, special_nodes, choice)} :
        res.nright > 0 =>
          IF res.nright % 2 = 0 /\ res.nleft > 1
            THEN res.raised = NoError /\ ParityPhases(res.gates) = 1
            ELSE /\ res.raised = Error("Exception", "Gadget seems non-unitary")
                 /\ ParityPhases(res.gates) = 0

\* the resolver went through the case with right-targets left and emitted
\* the gate between the basis changes of lines 515-523
C14_Witness ==
  /\ pc = "absorb"
  /\ \E k \in 3..Len(c) :
       /\ c[k].name = "ParityPhase"
       /\ c[k - 1].name = "HAD"
       /\ c[k - 2] = Gate("ZPhase", -2, c[k - 1].qubits)
  /\ \E k \in 1..Len(c) : c[k].name = "ZPhase" /\ c[k].phase = 2

\* the neighbours of v on rows below row lr in the diagram g0
LowerOf(g0, v, lr) == {w \in Range(neighbours(g0, v)) : g0.rs[w] < Row(lr)}

\* the advance moved the frontier by one row and the new frontier is made
\* of the old frontier vertices that were not advanceable and of the
\* successors of the advanceable ones
FrontierMoved ==
  /\ leftrow' = leftrow + 1
  /\ Range(Frontier(g', leftrow'))
       = (Range(Frontier(g, leftrow)) \ Range(good_verts)) \cup Range(good_neighs)

\* C15 as stated: after an advance the frontier has moved as above, each
\* successor has its predecessor's qubit, and every vertex of the new
\* frontier has exactly one neighbour on a lower row, which is on its
\* qubit, also when two advanceable vertices have the same successor.
C15_NewFrontierSingleParent ==
  [][pc = "advance" =>
       /\ FrontierMoved
       /\ \A k \in 1..Len(good_verts) : g'.qs[good_neighs[k]] = g.qs[good_verts[k]]
       /\ \A v \in Range(Frontier(g', leftrow')) :
            /\ Cardinality(LowerOf(g', v, leftrow')) = 1
            /\ \A w \in LowerOf(g', v, leftrow') : g'.qs[w] = g'.qs[v]]_vars

\* the last index at which w stands in the list of successors
LastPred(w) ==
  CHOOSE k \in 1..Len(good_neighs) :
    good_neighs[k] = w /\ \A j \in (k + 1)..Len(good_neighs) : good_neighs[j] # w

\* C15 amended: after an advance the frontier has moved as above; a
\* successor has as its lower-row neighbours all the advanceable vertices
\* it is the successor of and has the qubit of the last of them in frontier
\* order, so it has exactly one lower-row neighbour, on its own qubit, only
\* if it is the successor of a single vertex; every old frontier vertex
\* that was not advanceable keeps exactly one lower-row neighbour, on its
\* qubit.
C15_NewFrontierParentsArePredecessors ==
  [][pc = "advance" =>
       /\ FrontierMoved
       /\ \A w \in Range(good_neighs) :
            /\ g'.qs[w] = g.qs[good_verts[LastPred(w)]]
            /\ LowerOf(g', w, leftrow')
                 = {good_verts[k] : k \in {k \in 1..Len(good_neighs) : good_neighs[k] = w}}
       /\ \A v \in Range(Frontier(g, leftrow)) \ Range(good_verts) :
            /\ Cardinality(LowerOf(g', v, leftrow')) = 1
            /\ \A w \in LowerOf(g', v, leftrow') : g'.qs[w] = g'.qs[v]]_vars

\* an advance has put a vertex with two predecessors on the frontier
C15_Witness ==
  /\ pc = "absorb"
  /\ leftrow = 2
  /\ \E v \in Range(Frontier(g, leftrow)) : Cardinality(LowerOf(g, v, leftrow)) = 2

\* C16: every output vertex has exactly one neighbour when the extraction
\* starts, and so it has in every state the extraction reaches: the CNOTs
\* of the greedy reduction, handle_phase_gadget and try_greedy_cut never
\* add an edge to an output and replace the edge they take from it by the
\* edge to a buffer vertex.
C16_OutputsKeepOneNeighbour ==
  \A o \in g.outputs : Len(neighbours(g, o)) = 1

\* CNOTs were applied and a buffer vertex, added during the extraction,
\* stands between an output and the vertex the output hung on
C16_Witness ==
  /\ pc \in {"absorb", "advance"}
  /\ HasGate("CNOT")
  /\ \E o \in g.outputs : \E w \in Range(neighbours(g, o)) :
       /\ \A o2 \in g.outputs : w > o2
       /\ Len(neighbours(g, w)) > 2

(***************************************************************************)
(* Properties of modified_extract.                                         *)
(***************************************************************************)
\* the number of CZ gates that the matrix m stands for
CzCount(m, N) == Cardinality({p \in RowPairs(N) : m[p[1]][p[2]] = 1})

\* one round of the loop: rows i and j share the k > 2 qubits qbs, the
\* round appends CNOT, k CZ, CNOT, which is fewer than the 2k CZ gates
\* between i, j and the shared qubits, and takes exactly these out of the
\* matrix
CzRoundReplaces ==
  LET i == me.overlap_data[1][1]
      j == me.overlap_data[1][2]
      qbs == me.overlap_data[2]
      k == Len(qbs)
      gone == {{i, q} : q \in Range(qbs)} \cup {{j, q} : q \in Range(qbs)}
  IN /\ k > 2
     /\ Range(qbs) = Common(me.cz_mat, me.N, i, j)
     /\ Cardinality(Range(qbs)) = k
     /\ Len(me'.c) = Len(me.c) + k + 2
     /\ me'.c = me.c \o CzBurst(i, j, qbs)
     /\ k + 2 < 2 * k
     /\ CzCount(me'.cz_mat, me.N) = CzCount(me.cz_mat, me.N) - 2 * k
     /\ \A x, y \in 0..(me.N - 1) :
          me'.cz_mat[x][y] = IF {x, y} \in gone THEN 0 ELSE me.cz_mat[x][y]

\* C17: on every symmetric CZ matrix with zero diagonal the overlap loop
\* comes to its end, each round replaces the 2k CZ gates of the chosen pair
\* of rows (k > 2 shared qubits) by the k + 2 gates CNOT, k CZ, CNOT, and
\* when the loop is left no two rows share more than two qubits.
C17_OverlapLoopReducesAndEnds ==
  /\ <>(me.pc = "done")
  /\ [][(me.pc = "while" /\ me'.pc = "while") => CzRoundReplaces]_vars
  /\ []((me.pc = "rest" /\ me.optimize_czs)
          => \A p \in RowPairs(me.N) :
               Cardinality(Common(me.cz_mat, me.N, p[1], p[2])) <= 2)

\* the loop went through a round and was left
C17_Witness ==
  /\ me.pc = "done"
  /\ \E k \in 1..Len(me.c) : me.c[k].name = "CNOT"

\* an iteration of the main loop that starts in the state st comes back to
\* the head of the loop with the diagram, the frontier and the circuit as
\* they were
MeIdleRound(st) ==
  \E s1 \in {MeBody(st)} :
    /\ s1.pc = "search"
    /\ \E s2 \in {MeSearch(s1)} :
         s2.pc = "top" /\ s2.g = s1.g /\ s2.frontier = s1.frontier /\ s2.c = s1.c
         /\ s1.g = st.g /\ s1.frontier = st.frontier /\ s1.c = st.c

\* C18: on every diagram the main loop of modified_extract stops after a
\* bounded number of iterations, with a circuit or an exception, and no
\* iteration leaves the diagram, the frontier and the circuit all unchanged,
\* also when no maximal vertex is found and no neighbour of the frontier is
\* a gadget anchor.
C18_MainLoopBoundedNeverIdle ==
  /\ <>(me.pc \in {"returned", "raised", "pivot"})
  /\ [](me.pc = "top" => ~MeIdleRound(me))

====
